---- MODULE Spec2Model ----
(***************************************************************************)
(* Behavioural model of the oruga widgets: the date picker table row       *)
(* (selectability, keyboard navigation), the dropdown and the tooltip      *)
(* (open / close, deferred callbacks, document listeners).                 *)
(***************************************************************************)
EXTENDS Integers, Sequences, FiniteSets, TLC

VARIABLES
    props,              \* DatepickerTableRow: the props of the instance
    pc,                 \* DatepickerTableRow: "idle" | "loop" | "body" (changeFocus) | "done"
    op,                 \* DatepickerTableRow: the handler that ran last
    day,                \* DatepickerTableRow: the date argument of that handler
    inc,                \* changeFocus: its increment
    nextDay,            \* changeFocus: the local nextDay
    emitted,            \* DatepickerTableRow: events emitted by the handler, in order
    defaultPrevented,   \* manageKeydown: event.preventDefault() was called
    arg,                \* pure function call: the argument
    ret,                \* pure function call: <<>> before the call, <<result>> after
    docListeners,       \* document: the registered listeners, in registration order
    ev,                 \* document: the user event dispatched last
    ddProps,            \* Dropdown: the props of the instance
    ddMounted,          \* Dropdown: created and not yet unmounted
    ddIsActive,         \* Dropdown: data isActive
    ddIsHoverable,      \* Dropdown: data isHoverable
    ddSelected,         \* Dropdown: data selected
    ddTicks,            \* Dropdown: pending $nextTick callbacks of toggle()
    ddTimers,           \* Dropdown: pending zero-delay timers of toggle(), each with its value
    ttProps,            \* Tooltip: the props of the instance
    ttMounted,          \* Tooltip: created and not yet unmounted
    ttIsActive,         \* Tooltip: data isActive
    ttTimer,            \* Tooltip: this.timer, the handle open() stored last
    ttPending,          \* Tooltip: pending open-delay timers (handles), oldest first
    ttTicks,            \* Tooltip: pending $nextTick callbacks of onClick
    ttClickTimers,      \* Tooltip: pending zero-delay timers of onClick
    ttHover,            \* Tooltip: the pointer is over the trigger
    ttFocus,            \* Tooltip: the focus is inside the trigger
    dtProps,            \* Datetimepicker: the props of the instance
    newValue,           \* Datetimepicker: data newValue
    dtInput,            \* Datetimepicker: event.target.value of the last change event
    dtEmitted           \* Datetimepicker: the events the last handler emitted

rowVars == <<props, pc, op, day, inc, nextDay, emitted, defaultPrevented>>
fnVars == <<arg, ret>>
docVars == <<docListeners, ev>>
ddVars == <<ddProps, ddMounted, ddIsActive, ddIsHoverable, ddSelected, ddTicks, ddTimers>>
ttDom == <<ttHover, ttFocus>>
ttVars == <<ttProps, ttMounted, ttIsActive, ttTimer, ttPending, ttTicks, ttClickTimers, ttDom>>
ovVars == <<docVars, ddVars, ttVars>>
dtVars == <<dtProps, newValue, dtInput, dtEmitted>>
vars == <<rowVars, fnVars, dtVars, ovVars>>

(***************************************************************************)
(* Optional values: a prop that is undefined, or set to a value.           *)
(***************************************************************************)
Undefined == {}
Some(x) == {x}
IsSet(o) == o # {}
Val(o) == CHOOSE x \in o : TRUE

\* a value that is a boolean or an array
BoolProp(b) == [isBoolean |-> TRUE, bool |-> b, list |-> <<>>]
ArrayProp(l) == [isBoolean |-> FALSE, bool |-> FALSE, list |-> l]

(***************************************************************************)
(* The built-in Date.  A date is its timestamp at local midnight, counted  *)
(* in days since 1970-01-01 (getTime() / 864e5).                           *)
(***************************************************************************)
DaysFromCivil(y, m, d) ==
    LET yy == IF m <= 2 THEN y - 1 ELSE y
        era == yy \div 400
        yoe == yy - era * 400
        mp == IF m > 2 THEN m - 3 ELSE m + 9
        doy == (153 * mp + 2) \div 5 + d - 1
        doe == yoe * 365 + yoe \div 4 - yoe \div 100 + doy
    IN era * 146097 + doe - 719468

Civil(t) ==
    LET z == t + 719468
        era == z \div 146097
        doe == z - era * 146097
        yoe == (doe - doe \div 1460 + doe \div 36524 - doe \div 146096) \div 365
        doy == doe - (365 * yoe + yoe \div 4 - yoe \div 100)
        mp == (5 * doy + 2) \div 153
        d == doy - (153 * mp + 2) \div 5 + 1
        m == IF mp < 10 THEN mp + 3 ELSE mp - 9
        y == yoe + era * 400 + (IF m <= 2 THEN 1 ELSE 0)
    IN [y |-> y, m |-> m, d |-> d]

\* new Date(year, month, date): month is 0-based, date overflows into the
\* neighbouring months
NewDate(year, month, date) == DaysFromCivil(year, month + 1, 1) + date - 1

\* the dates keyboard navigation may reach: 2019-11-01 .. 2021-02-28
CalFrom == NewDate(2019, 10, 1)
CalTo == NewDate(2021, 1, 28)

\* the dates of the model: MaxYears years from 2017 on
MaxYears == 6
Calendar == [t \in NewDate(2017, 0, 1)..NewDate(2016 + MaxYears, 11, 31) |-> Civil(t)]

GetFullYear(t) == Calendar[t].y
GetMonth(t) == Calendar[t].m - 1
GetDate(t) == Calendar[t].d
GetDay(t) == (t + 4) % 7

\* d.setDate(n): day n of the month d is in, normalised
SetDate(t, n) == NewDate(GetFullYear(t), GetMonth(t), n)

Sign(n) == IF n > 0 THEN 1 ELSE IF n < 0 THEN 0 - 1 ELSE 0

\* list.indexOf(x): 0-based index of the first x, -1 when there is none
IndexOf(list, x) ==
    IF \E i \in 1..Len(list) : list[i] = x
    THEN (CHOOSE i \in 1..Len(list) :
              /\ list[i] = x
              /\ \A j \in 1..(i - 1) : list[j] # x) - 1
    ELSE 0 - 1

(***************************************************************************)
(* DatepickerTableRow: week numbers                                        *)
(***************************************************************************)
\* firstWeekOffset with the weekday of January 1 taken for that of the first-week day
firstWeekOffset_JanuaryFirst(year, dow, doy) ==
    LET fwd == 7 + dow - doy
        firstJanuary == NewDate(year, 0, 1)
        fwdlw == (7 + GetDay(firstJanuary) - dow) % 7
    IN 0 - fwdlw + fwd - 1

firstWeekOffset(year, dow, doy) ==
    LET fwd == 7 + dow - doy
        firstJanuary == NewDate(year, 0, fwd)
        fwdlw == (7 + GetDay(firstJanuary) - dow) % 7
    IN 0 - fwdlw + fwd - 1

isLeapYear(year) == (year % 4 = 0 /\ year % 100 # 0) \/ year % 400 = 0

\* daysInYear without leap years
daysInYear_NoLeap(year) == 365

daysInYear(year) == IF isLeapYear(year) THEN 366 ELSE 365

\* getSetDayOfYear counted from the first day of the displayed month
getSetDayOfYear_DisplayedMonth(input) ==
    (input - NewDate(GetFullYear(input), props.month, 1)) + 1

\* Math.round((input - new Date(year, 0, 1)) / 864e5) + 1
getSetDayOfYear(input) == (input - NewDate(GetFullYear(input), 0, 1)) + 1

\* weeksInYear that gives every year 52 weeks
weeksInYear_Always52(year, dow, doy) == [int |-> 52, rem |-> 0]

\* the quotient is returned as its integer part and the remainder of the
\* division, which is 0 when the quotient is a whole number
weeksInYear(year, dow, doy) ==
    LET weekOffset == firstWeekOffset(year, dow, doy)
        weekOffsetNext == firstWeekOffset(year + 1, dow, doy)
        days == daysInYear(year) - weekOffset + weekOffsetNext
    IN [int |-> days \div 7, rem |-> days % 7]

\* getWeekNumber without the branch for a week of the previous year
getWeekNumber_NoPreviousYear(mom) ==
    LET dow == props.firstDayOfWeek
        doy == props.rulesForFirstWeek
        weekOffset == firstWeekOffset(GetFullYear(mom), dow, doy)
        week == ((getSetDayOfYear(mom) - weekOffset - 1) \div 7) + 1
        n == weeksInYear(GetFullYear(mom), dow, doy)
    IN IF week > n.int
       THEN IF n.rem = 0
            THEN [int |-> week - n.int, rem |-> 0]
            ELSE [int |-> week - n.int - 1, rem |-> 7 - n.rem]
       ELSE [int |-> week, rem |-> 0]

getWeekNumber(mom) ==
    LET dow == props.firstDayOfWeek
        doy == props.rulesForFirstWeek
        weekOffset == firstWeekOffset(GetFullYear(mom), dow, doy)
        week == ((getSetDayOfYear(mom) - weekOffset - 1) \div 7) + 1
        \* week > n, week + n and week - n for a whole week and a quotient n
        Greater(n) == week > n.int
        Plus(n) == [int |-> week + n.int, rem |-> n.rem]
        Minus(n) == IF n.rem = 0
                    THEN [int |-> week - n.int, rem |-> 0]
                    ELSE [int |-> week - n.int - 1, rem |-> 7 - n.rem]
    IN IF week < 1
       THEN Plus(weeksInYear(GetFullYear(mom) - 1, dow, doy))
       ELSE IF Greater(weeksInYear(GetFullYear(mom), dow, doy))
            THEN Minus(weeksInYear(GetFullYear(mom), dow, doy))
            ELSE [int |-> week, rem |-> 0]

(***************************************************************************)
(* DatepickerTableRow.selectableDate                                       *)
(***************************************************************************)
\* selectableDates with a match pushed as a vote instead of returned
RECURSIVE scanSelectableDates_MatchVotes(_, _, _, _)
scanSelectableDates_MatchVotes(list, i, d, validity) ==
    IF i > Len(list)
    THEN [returned |-> FALSE, validity |-> validity]
    ELSE scanSelectableDates_MatchVotes(list, i + 1, d,
             Append(validity,
                    /\ GetDate(d) = GetDate(list[i])
                    /\ GetFullYear(d) = GetFullYear(list[i])
                    /\ GetMonth(d) = GetMonth(list[i])))

\* the loop over selectableDates: returns early on a match, pushes false
\* for every entry that does not match
RECURSIVE scanSelectableDates(_, _, _, _)
scanSelectableDates(list, i, d, validity) ==
    IF i > Len(list)
    THEN [returned |-> FALSE, validity |-> validity]
    ELSE IF /\ GetDate(d) = GetDate(list[i])
            /\ GetFullYear(d) = GetFullYear(list[i])
            /\ GetMonth(d) = GetMonth(list[i])
         THEN [returned |-> TRUE, validity |-> validity]
         ELSE scanSelectableDates(list, i + 1, d, Append(validity, FALSE))

RECURSIVE scanUnselectableDates(_, _, _, _)
scanUnselectableDates(list, i, d, validity) ==
    IF i > Len(list)
    THEN validity
    ELSE scanUnselectableDates(list, i + 1, d,
             Append(validity,
                    \/ GetDate(d) # GetDate(list[i])
                    \/ GetFullYear(d) # GetFullYear(list[i])
                    \/ GetMonth(d) # GetMonth(list[i])))

\* unselectableDaysOfWeek compared with getDate() instead of getDay()
RECURSIVE scanUnselectableDaysOfWeek_GetDate(_, _, _, _)
scanUnselectableDaysOfWeek_GetDate(list, i, d, validity) ==
    IF i > Len(list)
    THEN validity
    ELSE scanUnselectableDaysOfWeek_GetDate(list, i + 1, d,
             Append(validity, GetDate(d) # list[i]))

RECURSIVE scanUnselectableDaysOfWeek(_, _, _, _)
scanUnselectableDaysOfWeek(list, i, d, validity) ==
    IF i > Len(list)
    THEN validity
    ELSE scanUnselectableDaysOfWeek(list, i + 1, d,
             Append(validity, GetDay(d) # list[i]))

\* selectableDate that ignores the votes of the allow-list loop
selectableDate_AllowListIgnored(d) ==
    LET v1 == IF IsSet(props.minDate) THEN <<d >= Val(props.minDate)>> ELSE <<>>
        v2 == IF IsSet(props.maxDate) THEN Append(v1, d <= Val(props.maxDate)) ELSE v1
        v3 == IF props.nearbyMonthDays /\ ~props.nearbySelectableMonthDays
              THEN Append(v2, GetMonth(d) = props.month)
              ELSE v2
        s4 == IF IsSet(props.selectableDates)
              THEN scanSelectableDates(Val(props.selectableDates), 1, d, v3)
              ELSE [returned |-> FALSE, validity |-> v3]
        v5 == IF IsSet(props.unselectableDates)
              THEN scanUnselectableDates(Val(props.unselectableDates), 1, d, v3)
              ELSE v3
        v6 == IF IsSet(props.unselectableDaysOfWeek)
              THEN scanUnselectableDaysOfWeek(Val(props.unselectableDaysOfWeek), 1, d, v5)
              ELSE v5
    IN IF s4.returned THEN TRUE ELSE IndexOf(v6, FALSE) < 0

\* selectableDate that takes today as the earliest date when minDate is not set
selectableDate_FromToday(d) ==
    LET v1 == IF IsSet(props.minDate) THEN <<d >= Val(props.minDate)>> ELSE <<d >= props.dateCreator>>
        v2 == IF IsSet(props.maxDate) THEN Append(v1, d <= Val(props.maxDate)) ELSE v1
        v3 == IF props.nearbyMonthDays /\ ~props.nearbySelectableMonthDays
              THEN Append(v2, GetMonth(d) = props.month)
              ELSE v2
        s4 == IF IsSet(props.selectableDates)
              THEN scanSelectableDates(Val(props.selectableDates), 1, d, v3)
              ELSE [returned |-> FALSE, validity |-> v3]
        v5 == IF IsSet(props.unselectableDates)
              THEN scanUnselectableDates(Val(props.unselectableDates), 1, d, s4.validity)
              ELSE s4.validity
        v6 == IF IsSet(props.unselectableDaysOfWeek)
              THEN scanUnselectableDaysOfWeek(Val(props.unselectableDaysOfWeek), 1, d, v5)
              ELSE v5
    IN IF s4.returned THEN TRUE ELSE IndexOf(v6, FALSE) < 0

selectableDate(d) ==
    LET v1 == IF IsSet(props.minDate) THEN <<d >= Val(props.minDate)>> ELSE <<>>
        v2 == IF IsSet(props.maxDate) THEN Append(v1, d <= Val(props.maxDate)) ELSE v1
        v3 == IF props.nearbyMonthDays /\ ~props.nearbySelectableMonthDays
              THEN Append(v2, GetMonth(d) = props.month)
              ELSE v2
        s4 == IF IsSet(props.selectableDates)
              THEN scanSelectableDates(Val(props.selectableDates), 1, d, v3)
              ELSE [returned |-> FALSE, validity |-> v3]
        v5 == IF IsSet(props.unselectableDates)
              THEN scanUnselectableDates(Val(props.unselectableDates), 1, d, s4.validity)
              ELSE s4.validity
        v6 == IF IsSet(props.unselectableDaysOfWeek)
              THEN scanUnselectableDaysOfWeek(Val(props.unselectableDaysOfWeek), 1, d, v5)
              ELSE v5
    IN IF s4.returned THEN TRUE ELSE IndexOf(v6, FALSE) < 0

(***************************************************************************)
(* DatepickerTableRow: events and cell classes                             *)
(***************************************************************************)
\* a value that is a Date or an array of Dates (selectedDate: [Date, Array])
DateValue(d) == [isArray |-> FALSE, date |-> d, list |-> <<>>]
DatesValue(l) == [isArray |-> TRUE, date |-> 0, list |-> l]

hasEvents == IF IsSet(props.events) THEN Len(Val(props.events)) > 0 ELSE FALSE

\* eventsDateMatch matching on the day of the month
eventsDateMatch_ByDate(d) ==
    IF ~hasEvents
    THEN BoolProp(FALSE)
    ELSE LET dayEvents == SelectSeq(Val(props.events),
                                    LAMBDA event : GetDate(event.date) = GetDate(d))
         IN IF Len(dayEvents) = 0 THEN BoolProp(FALSE) ELSE ArrayProp(dayEvents)

\* returns false (BoolProp(FALSE)) or the array of the matching events
eventsDateMatch(d) ==
    IF ~hasEvents
    THEN BoolProp(FALSE)
    ELSE LET dayEvents == SelectSeq(Val(props.events),
                                    LAMBDA event : GetDay(event.date) = GetDay(d))
         IN IF Len(dayEvents) = 0 THEN BoolProp(FALSE) ELSE ArrayProp(dayEvents)

\* dateMatch that looks at the first element of an array only
dateMatch_FirstOnly(dateOne, dateTwo, multiple) ==
    IF ~IsSet(dateTwo)
    THEN FALSE
    ELSE IF multiple
         THEN FALSE
         ELSE IF Val(dateTwo).isArray
              THEN IF Val(dateTwo).list = <<>> THEN FALSE ELSE dateOne = Val(dateTwo).list[1]
              ELSE dateOne = Val(dateTwo).date

\* function dateMatch(dateOne, dateTwo, multiple = false) of cellClasses
dateMatch(dateOne, dateTwo, multiple) ==
    LET sameDay(a, b) ==
            /\ GetDate(a) = GetDate(b)
            /\ GetFullYear(a) = GetFullYear(b)
            /\ GetMonth(a) = GetMonth(b)
    IN IF ~IsSet(dateTwo)
       THEN FALSE
       ELSE IF multiple
            THEN FALSE
            ELSE IF Val(dateTwo).isArray
                 THEN \E i \in 1..Len(Val(dateTwo).list) :
                          sameDay(dateOne, Val(dateTwo).list[i])
                 ELSE sameDay(dateOne, Val(dateTwo).date)

\* dateWithin with the two ends of the range included
dateWithin_Inclusive(dateOne, dates, multiple) ==
    IF ~IsSet(dates)
    THEN FALSE
    ELSE IF ~Val(dates).isArray
         THEN FALSE
         ELSE IF multiple
              THEN FALSE
              ELSE IF Len(Val(dates).list) < 2
                   THEN FALSE
                   ELSE /\ dateOne >= Val(dates).list[1]
                        /\ dateOne <= Val(dates).list[2]

\* function dateWithin(dateOne, dates, multiple = false) of cellClasses; a
\* comparison with an element the array does not have is false
dateWithin(dateOne, dates, multiple) ==
    IF ~IsSet(dates)
    THEN FALSE
    ELSE IF ~Val(dates).isArray
         THEN FALSE
         ELSE IF multiple
              THEN FALSE
              ELSE IF Len(Val(dates).list) < 2
                   THEN FALSE
                   ELSE /\ dateOne > Val(dates).list[1]
                        /\ dateOne < Val(dates).list[2]

\* the selectable and unselectable flags with the disabled prop left out of the second
selectableClasses_DisabledIgnored(d) ==
    [selectable |-> selectableDate(d) /\ ~props.disabled,
     unselectable |-> ~selectableDate(d)]

\* the selectable and unselectable flags of cellClasses
selectableClasses(d) ==
    [selectable |-> selectableDate(d) /\ ~props.disabled,
     unselectable |-> IF ~selectableDate(d) THEN TRUE ELSE props.disabled]

\* the class flags of the cell of d; a dateTwo that is false, null or undefined
\* is Undefined
cellClasses(d) ==
    LET \* Array.isArray(dates) && dates[index]
        element(dates, index) ==
            IF ~IsSet(dates)
            THEN Undefined
            ELSE IF ~Val(dates).isArray
                 THEN Undefined
                 ELSE IF Len(Val(dates).list) <= index
                      THEN Undefined
                      ELSE Some(DateValue(Val(dates).list[index + 1]))
    IN [selected |-> IF dateMatch(d, props.selectedDate, FALSE)
                     THEN TRUE
                     ELSE dateWithin(d, props.selectedDate, props.multiple),
        firstSelected |-> dateMatch(d, element(props.selectedDate, 0), props.multiple),
        withinSelected |-> dateWithin(d, props.selectedDate, props.multiple),
        lastSelected |-> dateMatch(d, element(props.selectedDate, 1), props.multiple),
        firstHovered |-> dateMatch(d, element(props.hoveredDateRange, 0), FALSE),
        withinHovered |-> dateWithin(d, props.hoveredDateRange, FALSE),
        lastHovered |-> dateMatch(d, element(props.hoveredDateRange, 1), FALSE),
        today |-> dateMatch(d, Some(DateValue(props.dateCreator)), FALSE),
        selectable |-> selectableClasses(d).selectable,
        unselectable |-> selectableClasses(d).unselectable,
        invisible |-> ~props.nearbyMonthDays /\ GetMonth(d) # props.month,
        nearby |-> props.nearbySelectableMonthDays /\ GetMonth(d) # props.month,
        events |-> hasEvents]

(***************************************************************************)
(* DatepickerTableRow: event handlers                                      *)
(***************************************************************************)
Event(name, payload) == [name |-> name, payload |-> payload]

\* template: the cell of weekDay is an <a> with the click, mouseenter and
\* keydown handlers only when v-if="selectableDate(weekDay) && !disabled"
CellIsButton(weekDay) == selectableDate(weekDay) /\ ~props.disabled

InWeek(weekDay) == \E i \in 1..Len(props.week) : props.week[i] = weekDay

\* emitChosenDate without the test of the disabled prop
emitChosenDate_DisabledIgnored(d) ==
    IF selectableDate(d) THEN <<Event("select", d)>> ELSE <<>>

emitChosenDate(d) ==
    IF props.disabled
    THEN <<>>
    ELSE IF selectableDate(d) THEN <<Event("select", d)>> ELSE <<>>

setRangeHoverEndDate(d) ==
    IF props.range THEN <<Event("rangeHoverEndDate", d)>> ELSE <<>>

Keys == {"Tab", " ", "Space", "Spacebar", "Enter", "ArrowLeft", "Left",
         "ArrowRight", "Right", "ArrowUp", "Up", "ArrowDown", "Down", "a"}

IsArrow(key) == key \in {"ArrowLeft", "Left", "ArrowRight", "Right",
                         "ArrowUp", "Up", "ArrowDown", "Down"}

\* the increment manageKeydown passes to changeFocus
KeyIncrement(key) ==
    CASE key \in {"ArrowLeft", "Left"} -> 0 - 1
      [] key \in {"ArrowRight", "Right"} -> 1
      [] key \in {"ArrowUp", "Up"} -> 0 - 7
      [] key \in {"ArrowDown", "Down"} -> 7
      [] OTHER -> 0

\* the condition of changeFocus's while loop
changeFocusCond(nd) ==
    /\ (IF IsSet(props.minDate) THEN nd > Val(props.minDate) ELSE TRUE)
    /\ (IF IsSet(props.maxDate) THEN nd < Val(props.maxDate) ELSE TRUE)
    /\ ~selectableDate(nd)

\* the body of changeFocus's while loop: nextDay.setDate(day.getDate() + Math.sign(inc))
changeFocusBody(nd, d, i) == SetDate(nd, GetDate(d) + Sign(i))

\* @click.prevent="emitChosenDate(weekDay)"
Click(weekDay) ==
    /\ pc = "idle"
    /\ InWeek(weekDay)
    /\ CellIsButton(weekDay)
    /\ op' = "click"
    /\ day' = weekDay
    /\ emitted' = emitChosenDate(weekDay)
    /\ defaultPrevented' = TRUE
    /\ pc' = "done"
    /\ UNCHANGED <<props, inc, nextDay>>
    /\ UNCHANGED <<fnVars, dtVars, ovVars>>

\* @mouseenter="setRangeHoverEndDate(weekDay)"
MouseEnter(weekDay) ==
    /\ pc = "idle"
    /\ InWeek(weekDay)
    /\ CellIsButton(weekDay)
    /\ op' = "mouseenter"
    /\ day' = weekDay
    /\ emitted' = setRangeHoverEndDate(weekDay)
    /\ defaultPrevented' = FALSE
    /\ pc' = "done"
    /\ UNCHANGED <<props, inc, nextDay>>
    /\ UNCHANGED <<fnVars, dtVars, ovVars>>

\* the method emitChosenDate called on a date of the row, rendered as a button or not
CallEmitChosenDate(weekDay) ==
    /\ pc = "idle"
    /\ InWeek(weekDay)
    /\ op' = "emitChosenDate"
    /\ day' = weekDay
    /\ emitted' = emitChosenDate(weekDay)
    /\ pc' = "done"
    /\ UNCHANGED <<props, inc, nextDay, defaultPrevented>>
    /\ UNCHANGED <<fnVars, dtVars, ovVars>>

\* @keydown="manageKeydown($event, weekDay)"; an arrow key enters changeFocus,
\* whose loop runs in changeFocusTest and changeFocusStep and ends in changeFocusEnd
manageKeydown(key, weekDay) ==
    /\ pc = "idle"
    /\ InWeek(weekDay)
    /\ CellIsButton(weekDay)
    /\ op' = "keydown"
    /\ day' = weekDay
    /\ IF IsArrow(key)
       THEN /\ inc' = KeyIncrement(key)
            /\ nextDay' = SetDate(weekDay, GetDate(weekDay) + KeyIncrement(key))
            /\ emitted' = <<>>
            /\ defaultPrevented' = FALSE
            /\ pc' = "loop"
       ELSE /\ emitted' = IF key \in {" ", "Space", "Spacebar", "Enter"}
                          THEN emitChosenDate(weekDay)
                          ELSE <<>>
            /\ defaultPrevented' = (key # "Tab")
            /\ pc' = "done"
            /\ UNCHANGED <<inc, nextDay>>
    /\ UNCHANGED props
    /\ UNCHANGED <<fnVars, dtVars, ovVars>>

\* the condition of the while loop of changeFocus holds: the body is entered
changeFocusTest ==
    /\ pc = "loop"
    /\ changeFocusCond(nextDay)
    /\ pc' = "body"
    /\ UNCHANGED <<props, op, day, inc, nextDay, emitted, defaultPrevented>>
    /\ UNCHANGED <<fnVars, dtVars, ovVars>>

\* the body of the while loop of changeFocus, then back to its condition
changeFocusStep ==
    /\ pc = "body"
    /\ changeFocusBody(nextDay, day, inc) \in CalFrom..CalTo
    /\ nextDay' = changeFocusBody(nextDay, day, inc)
    /\ pc' = "loop"
    /\ UNCHANGED <<props, op, day, inc, emitted, defaultPrevented>>
    /\ UNCHANGED <<fnVars, dtVars, ovVars>>

\* the loop is left: setRangeHoverEndDate(nextDay), $emit('change-focus', nextDay),
\* then manageKeydown calls event.preventDefault()
changeFocusEnd ==
    /\ pc = "loop"
    /\ ~changeFocusCond(nextDay)
    /\ emitted' = setRangeHoverEndDate(nextDay) \o <<Event("change-focus", nextDay)>>
    /\ defaultPrevented' = TRUE
    /\ pc' = "done"
    /\ UNCHANGED <<props, op, day, inc, nextDay>>
    /\ UNCHANGED <<fnVars, dtVars, ovVars>>

(***************************************************************************)
(* Datetimepicker                                                          *)
(***************************************************************************)
\* the values newValue takes: undefined, null, a Date as its local calendar day
\* and its time of day in whole seconds, and the Invalid Date
JsUndefined == [kind |-> "undefined", date |-> 0, hours |-> 0, minutes |-> 0, seconds |-> 0]
Null == [kind |-> "null", date |-> 0, hours |-> 0, minutes |-> 0, seconds |-> 0]
InvalidDate == [kind |-> "Invalid Date", date |-> 0, hours |-> 0, minutes |-> 0, seconds |-> 0]
JsDate(t, h, mi, sec) == [kind |-> "Date", date |-> t, hours |-> h, minutes |-> mi, seconds |-> sec]

\* the characters \D does not match, with their values
DigitValue ==
    ("0" :> 0) @@ ("1" :> 1) @@ ("2" :> 2) @@ ("3" :> 3) @@ ("4" :> 4) @@
    ("5" :> 5) @@ ("6" :> 6) @@ ("7" :> 7) @@ ("8" :> 8) @@ ("9" :> 9)

\* text.split(/\D/): a text is a sequence of characters; every character that
\* is not a digit ends a token, so n such characters give n + 1 tokens
RECURSIVE split(_)
split(text) ==
    IF \A i \in 1..Len(text) : text[i] \in DOMAIN DigitValue
    THEN <<text>>
    ELSE LET i == CHOOSE k \in 1..Len(text) :
                      /\ text[k] \notin DOMAIN DigitValue
                      /\ \A j \in 1..(k - 1) : text[j] \in DOMAIN DigitValue
         IN <<SubSeq(text, 1, i - 1)>> \o split(SubSeq(text, i + 1, Len(text)))

\* parseInt(token, 10) of a token of split: NaN (Undefined) for the empty token
RECURSIVE parseInt(_)
parseInt(token) ==
    IF token = <<>>
    THEN Undefined
    ELSE IF Len(token) = 1
         THEN Some(DigitValue[token[1]])
         ELSE Some(Val(parseInt(SubSeq(token, 1, Len(token) - 1))) * 10
                       + DigitValue[token[Len(token)]])

\* new Date(year, month, day, hours, minutes): the Invalid Date when an argument
\* is NaN; a year 0..99 is 1900 + year; fields out of range carry over
NewDateTime(year, month, date, hours, minutes) ==
    IF \E n \in {year, month, date, hours, minutes} : ~IsSet(n)
    THEN InvalidDate
    ELSE LET y == IF Val(year) <= 99 THEN 1900 + Val(year) ELSE Val(year)
             total == Val(hours) * 60 + Val(minutes)
             t == NewDate(y + (Val(month) \div 12), Val(month) % 12, Val(date))
                      + (total \div 1440)
         IN JsDate(t, (total % 1440) \div 60, total % 60, 0)

\* a setter that keeps the stored value when it is given null or undefined
computedValueSet_FalsyIgnored(value) ==
    IF value.kind \in {"Date", "Invalid Date"} THEN value ELSE newValue

\* a setter that restores the time part whenever the calendar date changes
computedValueSet_AlwaysRestored(value) ==
    LET truthy(v) == v.kind \in {"Date", "Invalid Date"}
        getTime(v) == ((v.date * 24 + v.hours) * 60 + v.minutes) * 60 + v.seconds
        less(a, b) == a.kind = "Date" /\ b.kind = "Date" /\ getTime(a) < getTime(b)
        otherDay == IF value.kind = "Date" /\ newValue.kind = "Date"
                    THEN value.date # newValue.date
                    ELSE TRUE
        midnight == /\ value.kind = "Date"
                    /\ value.hours = 0
                    /\ value.minutes = 0
                    /\ value.seconds = 0
        setHours == IF newValue.kind = "Date"
                    THEN JsDate(value.date, newValue.hours, newValue.minutes, newValue.seconds)
                    ELSE InvalidDate
        restored == IF truthy(newValue)
                    THEN IF otherDay THEN setHours ELSE value
                    ELSE value
        minDatetime == dtProps.minDatetime
        maxDatetime == dtProps.maxDatetime
        val == IF IsSet(minDatetime) /\ less(restored, Val(minDatetime))
               THEN Val(minDatetime)
               ELSE IF IsSet(maxDatetime) /\ less(Val(maxDatetime), restored)
                    THEN Val(maxDatetime)
                    ELSE restored
    IN IF truthy(value) THEN val ELSE value

\* computedValue.set(value): the value stored in newValue and emitted with 'input';
\* the getters of the Invalid Date return NaN, which differs from everything
\* and compares false; datetimeCreator is the default, which returns its argument
computedValueSet(value) ==
    LET truthy(v) == v.kind \in {"Date", "Invalid Date"}
        getTime(v) == ((v.date * 24 + v.hours) * 60 + v.minutes) * 60 + v.seconds
        less(a, b) == a.kind = "Date" /\ b.kind = "Date" /\ getTime(a) < getTime(b)
        otherDay == IF value.kind = "Date" /\ newValue.kind = "Date"
                    THEN value.date # newValue.date
                    ELSE TRUE
        midnight == /\ value.kind = "Date"
                    /\ value.hours = 0
                    /\ value.minutes = 0
                    /\ value.seconds = 0
        setHours == IF newValue.kind = "Date"
                    THEN JsDate(value.date, newValue.hours, newValue.minutes, newValue.seconds)
                    ELSE InvalidDate
        restored == IF truthy(newValue)
                    THEN IF otherDay /\ midnight THEN setHours ELSE value
                    ELSE value
        minDatetime == dtProps.minDatetime
        maxDatetime == dtProps.maxDatetime
        val == IF IsSet(minDatetime) /\ less(restored, Val(minDatetime))
               THEN Val(minDatetime)
               ELSE IF IsSet(maxDatetime) /\ less(Val(maxDatetime), restored)
                    THEN Val(maxDatetime)
                    ELSE restored
    IN IF truthy(value) THEN val ELSE value

\* @change.native="onChangeNativePicker": the user has changed the text of the
\* native input to text
onChangeNativePicker(text) ==
    /\ dtInput' = text
    /\ LET s == IF text # <<>> THEN split(text) ELSE <<>>
           minusOne(n) == IF IsSet(n) THEN Some(Val(n) - 1) ELSE Undefined
           value == IF Len(s) >= 5
                    THEN NewDateTime(parseInt(s[1]), minusOne(parseInt(s[2])),
                                     parseInt(s[3]), parseInt(s[4]), parseInt(s[5]))
                    ELSE Null
       IN /\ newValue' = computedValueSet(value)
          /\ dtEmitted' = <<Event("input", computedValueSet(value))>>
    /\ UNCHANGED dtProps
    /\ UNCHANGED <<rowVars, fnVars, ovVars>>

\* v-model="computedValue" of the datepicker and of the timepicker: the picker
\* hands over the value the user chose
SetComputedValue(value) ==
    /\ newValue' = computedValueSet(value)
    /\ dtEmitted' = <<Event("input", computedValueSet(value))>>
    /\ UNCHANGED <<dtProps, dtInput>>
    /\ UNCHANGED <<rowVars, fnVars, ovVars>>

(***************************************************************************)
(* The document and the user events of the overlays (Dropdown, Tooltip)    *)
(*                                                                         *)
(* A user event is a task.  A click runs the handlers of its target first  *)
(* (ev.phase = "bubbling") and the document's click listeners afterwards;  *)
(* $nextTick callbacks are microtasks: they may run between the two, and   *)
(* all of them run before the next task (another event, a timer).          *)
(***************************************************************************)
UserEvent(type, target, phase, opening) ==
    [type |-> type, target |-> target, phase |-> phase, opening |-> opening]

Listener(type, owner) == [type |-> type, owner |-> owner]

HasListener(type, owner) ==
    \E i \in 1..Len(docListeners) : docListeners[i] = Listener(type, owner)

\* document.addEventListener(type, handler)
AddListener(listeners, type, owner) ==
    IF \E i \in 1..Len(listeners) : listeners[i] = Listener(type, owner)
    THEN listeners
    ELSE Append(listeners, Listener(type, owner))

\* document.removeEventListener(type, handler)
RemoveListener(listeners, type, owner) ==
    SelectSeq(listeners, LAMBDA l : l # Listener(type, owner))

\* no handler is running and no microtask is pending: the next task may start
TaskBoundary ==
    /\ ev.phase # "bubbling"
    /\ ddTicks = 0
    /\ ttTicks = 0

MaxPending == 2

\* the deferred callbacks of the page that have not run yet
Pending == ddTicks + Len(ddTimers) + ttTicks + ttClickTimers + Len(ttPending)

\* the page can take one more deferred callback
Room == Pending < MaxPending

(***************************************************************************)
(* Dropdown                                                                *)
(***************************************************************************)
\* cancelOptions with canClose = false read as canClose = true
cancelOptions_FalseEnablesAll ==
    IF ddProps.canClose.isBoolean THEN <<"escape", "outside">> ELSE ddProps.canClose.list

cancelOptions ==
    IF ddProps.canClose.isBoolean
    THEN IF ddProps.canClose.bool THEN <<"escape", "outside">> ELSE <<>>
    ELSE ddProps.canClose.list

hoverable == IndexOf(ddProps.triggers, "hover") >= 0

\* v-show of the menu
ddMenuShown ==
    IF (~ddProps.disabled /\ (IF ddIsActive THEN TRUE ELSE ddIsHoverable))
    THEN TRUE
    ELSE ddProps.inline

\* el is the menu, the trigger or one of their descendants
ddIsInWhiteList(el) == el \in {"ddMenu", "ddItem", "ddTrigger"}

\* clickedOutside with the white-list test inverted
ddClickedOutside_Inverted(target) ==
    IF IndexOf(cancelOptions, "outside") < 0
    THEN ddIsActive
    ELSE IF ddProps.inline
         THEN ddIsActive
         ELSE IF ddIsInWhiteList(target) THEN FALSE ELSE ddIsActive

\* isActive after clickedOutside(event)
ddClickedOutside(target) ==
    IF IndexOf(cancelOptions, "outside") < 0
    THEN ddIsActive
    ELSE IF ddProps.inline
         THEN ddIsActive
         ELSE IF ~ddIsInWhiteList(target) THEN FALSE ELSE ddIsActive

\* isActive after keyPress({ key })
ddKeyPress(key) ==
    IF ddIsActive /\ key \in {"Escape", "Esc"}
    THEN IF IndexOf(cancelOptions, "escape") < 0 THEN ddIsActive ELSE FALSE
    ELSE ddIsActive

\* selectItem in multiple mode that appends the value whether present or not
ddSelectedAfter_AppendOnly(value) ==
    IF ddProps.multiple
    THEN IF IsSet(ddSelected) THEN Some(Append(Val(ddSelected), value)) ELSE Some(<<value>>)
    ELSE Some(value)

\* selected after selectItem(value)
ddSelectedAfter(value) ==
    IF ddProps.multiple
    THEN IF IsSet(ddSelected)
         THEN IF IndexOf(Val(ddSelected), value) = 0 - 1
              THEN Some(Append(Val(ddSelected), value))
              ELSE Some(SelectSeq(Val(ddSelected), LAMBDA val : val # value))
         ELSE Some(<<value>>)
    ELSE Some(value)

selectItem(value) ==
    /\ ddSelected' = ddSelectedAfter(value)
    /\ IF ~ddProps.multiple
       THEN /\ ddIsActive' = ~ddProps.closeOnClick
            /\ ddIsHoverable' = IF hoverable /\ ddProps.closeOnClick
                                THEN FALSE
                                ELSE ddIsHoverable
       ELSE UNCHANGED <<ddIsActive, ddIsHoverable>>

toggle ==
    IF ddProps.disabled
    THEN UNCHANGED <<ddIsActive, ddTicks>>
    ELSE IF ~ddIsActive
         THEN /\ ddTicks' = ddTicks + 1
              /\ UNCHANGED ddIsActive
         ELSE /\ ddIsActive' = ~ddIsActive
              /\ UNCHANGED ddTicks

\* onClick without the test of the triggers
onClick_Unconditional == toggle

onClick ==
    IF IndexOf(ddProps.triggers, "click") < 0
    THEN UNCHANGED <<ddIsActive, ddTicks>>
    ELSE toggle

\* a click on the trigger: @click="onClick"
ClickDdTrigger ==
    /\ TaskBoundary
    /\ ddMounted
    /\ ~ddProps.inline
    /\ Room
    /\ onClick
    /\ ev' = UserEvent("click", "ddTrigger", "bubbling", ddTicks' > ddTicks)
    /\ UNCHANGED <<docListeners, ddProps, ddMounted, ddIsHoverable, ddSelected, ddTimers>>
    /\ UNCHANGED <<rowVars, fnVars, dtVars, ttVars>>

\* a click on an element outside the dropdown whose handler calls toggle()
ClickToggler ==
    /\ TaskBoundary
    /\ ddMounted
    /\ Room
    /\ toggle
    /\ ev' = UserEvent("click", "toggler", "bubbling", ddTicks' > ddTicks)
    /\ UNCHANGED <<docListeners, ddProps, ddMounted, ddIsHoverable, ddSelected, ddTimers>>
    /\ UNCHANGED <<rowVars, fnVars, dtVars, ttVars>>

\* a click on an item of the menu: DropdownItem calls selectItem(value)
ClickDdItem(value) ==
    /\ TaskBoundary
    /\ ddMounted
    /\ ddMenuShown
    /\ selectItem(value)
    /\ ev' = UserEvent("click", "ddItem", "bubbling", FALSE)
    /\ UNCHANGED <<docListeners, ddProps, ddMounted, ddTicks, ddTimers>>
    /\ UNCHANGED <<rowVars, fnVars, dtVars, ttVars>>

\* @contextmenu.prevent="onContextMenu"
onContextMenu ==
    /\ TaskBoundary
    /\ ddMounted
    /\ ~ddProps.inline
    /\ Room
    /\ IF IndexOf(ddProps.triggers, "contextmenu") < 0
       THEN UNCHANGED <<ddIsActive, ddTicks>>
       ELSE toggle
    /\ ev' = UserEvent("contextmenu", "ddTrigger", "done", ddTicks' > ddTicks)
    /\ UNCHANGED <<docListeners, ddProps, ddMounted, ddIsHoverable, ddSelected, ddTimers>>
    /\ UNCHANGED <<rowVars, fnVars, dtVars, ttVars>>

\* @focus.capture="onFocus"
onFocus ==
    /\ TaskBoundary
    /\ ddMounted
    /\ ~ddProps.inline
    /\ Room
    /\ IF IndexOf(ddProps.triggers, "focus") < 0
       THEN UNCHANGED <<ddIsActive, ddTicks>>
       ELSE toggle
    /\ ev' = UserEvent("focus", "ddTrigger", "done", ddTicks' > ddTicks)
    /\ UNCHANGED <<docListeners, ddProps, ddMounted, ddIsHoverable, ddSelected, ddTimers>>
    /\ UNCHANGED <<rowVars, fnVars, dtVars, ttVars>>

\* @mouseenter="onHover"
onHover ==
    /\ TaskBoundary
    /\ ddMounted
    /\ ~ddProps.inline
    /\ ddIsHoverable' = IF IndexOf(ddProps.triggers, "hover") < 0 THEN ddIsHoverable ELSE TRUE
    /\ ev' = UserEvent("mouseenter", "ddTrigger", "done", FALSE)
    /\ UNCHANGED <<docListeners, ddProps, ddMounted, ddIsActive, ddSelected, ddTicks, ddTimers>>
    /\ UNCHANGED <<rowVars, fnVars, dtVars, ttVars>>

\* @mouseleave="isHoverable = false" on the root element
ddMouseLeave ==
    /\ TaskBoundary
    /\ ddMounted
    /\ ddIsHoverable' = FALSE
    /\ ev' = UserEvent("mouseleave", "dropdown", "done", FALSE)
    /\ UNCHANGED <<docListeners, ddProps, ddMounted, ddIsActive, ddSelected, ddTicks, ddTimers>>
    /\ UNCHANGED <<rowVars, fnVars, dtVars, ttVars>>

\* the $nextTick callback of toggle() without its setTimeout
ddTick_NoTimer ==
    /\ ddTicks > 0
    /\ ddIsActive' = ~ddIsActive
    /\ ddTimers' = ddTimers
    /\ ddTicks' = ddTicks - 1
    /\ UNCHANGED <<docVars, ddProps, ddMounted, ddIsHoverable, ddSelected>>
    /\ UNCHANGED <<rowVars, fnVars, dtVars, ttVars>>

\* the $nextTick callback of toggle()
ddTick ==
    /\ ddTicks > 0
    /\ ddIsActive' = ~ddIsActive
    /\ ddTimers' = Append(ddTimers, ~ddIsActive)
    /\ ddTicks' = ddTicks - 1
    /\ UNCHANGED <<docVars, ddProps, ddMounted, ddIsHoverable, ddSelected>>
    /\ UNCHANGED <<rowVars, fnVars, dtVars, ttVars>>

\* the zero-delay timer of toggle(): this.isActive = value
ddTimerFire ==
    /\ TaskBoundary
    /\ ddTimers # <<>>
    /\ ddIsActive' = Head(ddTimers)
    /\ ddTimers' = Tail(ddTimers)
    /\ UNCHANGED <<docVars, ddProps, ddMounted, ddIsHoverable, ddSelected, ddTicks>>
    /\ UNCHANGED <<rowVars, fnVars, dtVars, ttVars>>

\* created(): the two document listeners of the dropdown
ddCreated(listeners) ==
    AddListener(AddListener(listeners, "click", "dropdown"), "keyup", "dropdown")

\* beforeUnmount() that removes the click listener only
ddRemoved_ClickOnly(listeners) == RemoveListener(listeners, "click", "dropdown")

\* beforeUnmount(): the document listeners left once the dropdown has removed its own
ddRemoved(listeners) ==
    RemoveListener(RemoveListener(listeners, "click", "dropdown"), "keyup", "dropdown")

ddBeforeUnmount ==
    /\ TaskBoundary
    /\ ddMounted
    /\ docListeners' = ddRemoved(docListeners)
    /\ ddMounted' = FALSE
    /\ ev' = UserEvent("unmount", "dropdown", "done", FALSE)
    /\ UNCHANGED <<ddProps, ddIsActive, ddIsHoverable, ddSelected, ddTicks, ddTimers>>
    /\ UNCHANGED <<rowVars, fnVars, dtVars, ttVars>>

(***************************************************************************)
(* Tooltip                                                                 *)
(***************************************************************************)
\* v-show of the content
ttContentShown == ttProps.active /\ (IF ttIsActive THEN TRUE ELSE ttProps.always)

\* el is the content or one of its descendants
ttIsInWhiteList(el) == el = "ttContent"

\* this.autoClose as a condition: false only for the boolean false
ttAutoCloseTruthy == IF ttProps.autoClose.isBoolean THEN ttProps.autoClose.bool ELSE TRUE

\* isActive after clickedOutside(event)
ttClickedOutside(target) ==
    IF ttIsActive
    THEN IF ~ttProps.autoClose.isBoolean
         THEN LET a1 == IF IndexOf(ttProps.autoClose.list, "outside") >= 0
                        THEN IF ~ttIsInWhiteList(target) THEN FALSE ELSE ttIsActive
                        ELSE ttIsActive
                  a2 == IF IndexOf(ttProps.autoClose.list, "inside") >= 0
                        THEN IF ttIsInWhiteList(target) THEN FALSE ELSE a1
                        ELSE a1
              IN a2
         ELSE ttIsActive
    ELSE ttIsActive

\* keyPress that closes on Escape for every array value of autoClose
ttKeyPress_EscapeUnlisted(key) ==
    IF ttIsActive /\ key \in {"Escape", "Esc"}
    THEN IF ~ttProps.autoClose.isBoolean THEN FALSE ELSE ttIsActive
    ELSE ttIsActive

\* isActive after keyPress({ key })
ttKeyPress(key) ==
    IF ttIsActive /\ key \in {"Escape", "Esc"}
    THEN IF ~ttProps.autoClose.isBoolean
         THEN IF IndexOf(ttProps.autoClose.list, "escape") >= 0 THEN FALSE ELSE ttIsActive
         ELSE ttIsActive
    ELSE ttIsActive

\* the handle setTimeout returns: one that names no pending timer
ttNewHandle ==
    CHOOSE h \in 1..(Len(ttPending) + 1) : \A i \in 1..Len(ttPending) : ttPending[i] # h

open ==
    IF ttProps.delay > 0
    THEN /\ ttTimer' = Some(ttNewHandle)
         /\ ttPending' = Append(ttPending, ttNewHandle)
         /\ UNCHANGED ttIsActive
    ELSE /\ ttIsActive' = TRUE
         /\ UNCHANGED <<ttTimer, ttPending>>

\* a click on the trigger: @click="onClick"
ClickTtTrigger ==
    /\ TaskBoundary
    /\ ttMounted
    /\ Room
    /\ ttTicks' = IF IndexOf(ttProps.triggers, "click") < 0 THEN ttTicks ELSE ttTicks + 1
    /\ ev' = UserEvent("click", "ttTrigger", "bubbling", ttTicks' > ttTicks)
    /\ UNCHANGED <<docListeners, ttProps, ttMounted, ttIsActive, ttTimer, ttPending, ttClickTimers>>
    /\ UNCHANGED <<ttDom, rowVars, fnVars, dtVars, ddVars>>

\* the $nextTick callback of onClick calling open() itself, without the timer
ttTick_OpenAtOnce ==
    /\ ttTicks > 0
    /\ ttTicks' = ttTicks - 1
    /\ open
    /\ UNCHANGED <<docVars, ttProps, ttMounted, ttClickTimers>>
    /\ UNCHANGED <<ttDom, rowVars, fnVars, dtVars, ddVars>>

\* the $nextTick callback of onClick: setTimeout(() => this.open())
ttTick ==
    /\ ttTicks > 0
    /\ ttTicks' = ttTicks - 1
    /\ ttClickTimers' = ttClickTimers + 1
    /\ UNCHANGED <<docVars, ttProps, ttMounted, ttIsActive, ttTimer, ttPending>>
    /\ UNCHANGED <<ttDom, rowVars, fnVars, dtVars, ddVars>>

\* the zero-delay timer of onClick: this.open()
ttClickTimerFire ==
    /\ TaskBoundary
    /\ ttClickTimers > 0
    /\ ttClickTimers' = ttClickTimers - 1
    /\ open
    /\ UNCHANGED <<docVars, ttProps, ttMounted, ttTicks>>
    /\ UNCHANGED <<ttDom, rowVars, fnVars, dtVars, ddVars>>

\* @mouseenter="onHover", @focus.capture="onFocus", @contextmenu="onContextMenu";
\* the pointer enters a trigger it is not over, the focus one it is not in
ttTrigger(type) ==
    /\ TaskBoundary
    /\ ttMounted
    /\ Room
    /\ (type = "hover") => ~ttHover
    /\ (type = "focus") => ~ttFocus
    /\ ttHover' = IF type = "hover" THEN TRUE ELSE ttHover
    /\ ttFocus' = IF type = "focus" THEN TRUE ELSE ttFocus
    /\ IF IndexOf(ttProps.triggers, type) < 0
       THEN UNCHANGED <<ttIsActive, ttTimer, ttPending>>
       ELSE open
    /\ ev' = UserEvent(type, "ttTrigger", "done", IndexOf(ttProps.triggers, type) >= 0)
    /\ UNCHANGED <<docListeners, ttProps, ttMounted, ttTicks, ttClickTimers>>
    /\ UNCHANGED <<rowVars, fnVars, dtVars, ddVars>>

\* the pending timers after clearTimeout(handle)
ClearTimeout(pending, handle) == SelectSeq(pending, LAMBDA h : h # handle)

\* the pending timers after close()
ttPendingAfterClose ==
    IF ttAutoCloseTruthy /\ IsSet(ttTimer)
    THEN ClearTimeout(ttPending, Val(ttTimer))
    ELSE ttPending

\* @blur.capture="close", @mouseleave="close"
close(type) ==
    /\ TaskBoundary
    /\ ttMounted
    /\ (type = "mouseleave") => ttHover
    /\ (type = "blur") => ttFocus
    /\ ttHover' = IF type = "mouseleave" THEN FALSE ELSE ttHover
    /\ ttFocus' = IF type = "blur" THEN FALSE ELSE ttFocus
    /\ ttIsActive' = IF ttProps.autoClose.isBoolean THEN ~ttProps.autoClose.bool ELSE ttIsActive
    /\ ttPending' = ttPendingAfterClose
    /\ ev' = UserEvent(type, "ttTrigger", "done", FALSE)
    /\ UNCHANGED <<docListeners, ttProps, ttMounted, ttTimer, ttTicks, ttClickTimers>>
    /\ UNCHANGED <<rowVars, fnVars, dtVars, ddVars>>

\* the open-delay timer of open(): this.isActive = true; this.timer = null
ttDelayTimerFire ==
    /\ TaskBoundary
    /\ ttPending # <<>>
    /\ ttIsActive' = TRUE
    /\ ttTimer' = Undefined
    /\ ttPending' = Tail(ttPending)
    /\ UNCHANGED <<docVars, ttProps, ttMounted, ttTicks, ttClickTimers>>
    /\ UNCHANGED <<ttDom, rowVars, fnVars, dtVars, ddVars>>

\* created(): the two document listeners of the tooltip
ttCreated(listeners) ==
    AddListener(AddListener(listeners, "click", "tooltip"), "keyup", "tooltip")

\* beforeUnmount(): the document listeners left once the tooltip has removed its own
ttRemoved(listeners) ==
    RemoveListener(RemoveListener(listeners, "click", "tooltip"), "keyup", "tooltip")

ttBeforeUnmount ==
    /\ TaskBoundary
    /\ ttMounted
    /\ docListeners' = ttRemoved(docListeners)
    /\ ttMounted' = FALSE
    /\ ev' = UserEvent("unmount", "tooltip", "done", FALSE)
    /\ ttHover' = FALSE
    /\ ttFocus' = FALSE
    /\ UNCHANGED <<ttProps, ttIsActive, ttTimer, ttPending, ttTicks, ttClickTimers>>
    /\ UNCHANGED <<rowVars, fnVars, dtVars, ddVars>>

(***************************************************************************)
(* Events of the document                                                  *)
(***************************************************************************)
\* the target is on the page and can be clicked
Clickable(target) ==
    CASE target = "ddMenu" -> ddMounted /\ ddMenuShown
      [] target = "ttContent" -> ttMounted /\ ttContentShown
      [] OTHER -> TRUE

\* a click on an element that has no click handler of its own
ClickPlain(target) ==
    /\ TaskBoundary
    /\ Clickable(target)
    /\ ev' = UserEvent("click", target, "bubbling", FALSE)
    /\ UNCHANGED <<docListeners, ddVars, ttVars>>
    /\ UNCHANGED <<rowVars, fnVars, dtVars>>

\* the click reaches the document: every registered click listener runs
DocumentClick ==
    /\ ev.phase = "bubbling"
    /\ ddIsActive' = IF HasListener("click", "dropdown")
                     THEN ddClickedOutside(ev.target)
                     ELSE ddIsActive
    /\ ttIsActive' = IF HasListener("click", "tooltip")
                     THEN ttClickedOutside(ev.target)
                     ELSE ttIsActive
    /\ ev' = [ev EXCEPT !.phase = "done"]
    /\ UNCHANGED <<docListeners, ddProps, ddMounted, ddIsHoverable, ddSelected, ddTicks, ddTimers>>
    /\ UNCHANGED <<ttProps, ttMounted, ttTimer, ttPending, ttTicks, ttClickTimers, ttDom>>
    /\ UNCHANGED <<rowVars, fnVars, dtVars>>

\* a keyup reaches the document: every registered keyup listener runs
DocumentKeyUp(key) ==
    /\ TaskBoundary
    /\ ddIsActive' = IF HasListener("keyup", "dropdown") THEN ddKeyPress(key) ELSE ddIsActive
    /\ ttIsActive' = IF HasListener("keyup", "tooltip") THEN ttKeyPress(key) ELSE ttIsActive
    /\ ev' = UserEvent("keyup", key, "done", FALSE)
    /\ UNCHANGED <<docListeners, ddProps, ddMounted, ddIsHoverable, ddSelected, ddTicks, ddTimers>>
    /\ UNCHANGED <<ttProps, ttMounted, ttTimer, ttPending, ttTicks, ttClickTimers, ttDom>>
    /\ UNCHANGED <<rowVars, fnVars, dtVars>>

(***************************************************************************)
(* Inputs of the overlays                                                  *)
(***************************************************************************)
Items == {1, 2}
UpKeys == {"Escape", "Esc", "a"}
PlainTargets == {"ddMenu", "ttContent", "outside"}

DdDefaultProps ==
    [disabled |-> FALSE, inline |-> FALSE, multiple |-> FALSE, closeOnClick |-> TRUE,
     canClose |-> BoolProp(TRUE), triggers |-> <<"click">>]

TtDefaultProps ==
    [active |-> TRUE, always |-> FALSE, delay |-> 0, triggers |-> <<"hover">>,
     autoClose |-> BoolProp(TRUE)]

DdPropsSet ==
    [disabled : BOOLEAN, inline : BOOLEAN, multiple : BOOLEAN, closeOnClick : BOOLEAN,
     canClose : {BoolProp(TRUE), BoolProp(FALSE), ArrayProp(<<"escape">>), ArrayProp(<<"outside">>)},
     triggers : {<<"click">>, <<"hover">>, <<"click", "hover">>, <<"contextmenu", "focus">>}]

TtPropsSet ==
    [active : {TRUE}, always : {FALSE}, delay : {0, 100},
     triggers : {<<"hover">>, <<"click">>, <<"hover", "focus">>, <<"contextmenu">>},
     autoClose : {BoolProp(TRUE), BoolProp(FALSE), ArrayProp(<<"outside">>),
                  ArrayProp(<<"inside">>), ArrayProp(<<"escape">>),
                  ArrayProp(<<"inside", "outside", "escape">>)}]

NoEvent == UserEvent("none", "none", "done", FALSE)

\* the data() of a Dropdown and the state of its deferred callbacks
InitDdData ==
    /\ ddIsActive = FALSE
    /\ ddIsHoverable = FALSE
    /\ ddSelected = Undefined
    /\ ddTicks = 0
    /\ ddTimers = <<>>

\* the data() of a Tooltip and the state of its deferred callbacks
InitTtData ==
    /\ ttIsActive = FALSE
    /\ ttTimer = Undefined
    /\ ttPending = <<>>
    /\ ttTicks = 0
    /\ ttClickTimers = 0
    /\ ttHover = FALSE
    /\ ttFocus = FALSE

\* a page without overlays
InitOvIdle ==
    /\ docListeners = <<>>
    /\ ev = NoEvent
    /\ ddProps = DdDefaultProps
    /\ ddMounted = FALSE
    /\ InitDdData
    /\ ttProps = TtDefaultProps
    /\ ttMounted = FALSE
    /\ InitTtData

\* the handler has returned to the event loop; the host has consumed its events
Return ==
    /\ pc = "done"
    /\ pc' = "idle"
    /\ op' = "none"
    /\ day' = props.week[1]
    /\ inc' = 0
    /\ nextDay' = props.week[1]
    /\ emitted' = <<>>
    /\ defaultPrevented' = FALSE
    /\ UNCHANGED props
    /\ UNCHANGED <<fnVars, dtVars, ovVars>>

(***************************************************************************)
(* Inputs of the date picker row                                           *)
(***************************************************************************)
MaxDates == 2

SeqsOver(S, n) == UNION {[1..k -> S] : k \in 0..n}
SortedSeqsOver(S, n) ==
    {s \in SeqsOver(S, n) : \A i \in 1..Len(s) : \A j \in 1..Len(s) : i < j => s[i] < s[j]}

\* the grid row from Sunday 2020-01-26 to Saturday 2020-02-01
WeekFrom == NewDate(2020, 0, 26)
RowWeek == [i \in 1..7 |-> WeekFrom + i - 1]

RowProps ==
    [week : {RowWeek},
     month : {0},
     minDate : {Undefined, Some(NewDate(2020, 0, 20)), Some(NewDate(2020, 0, 27))},
     maxDate : {Undefined, Some(NewDate(2020, 0, 31)), Some(NewDate(2020, 1, 3))},
     disabled : BOOLEAN,
     unselectableDates :
         {Undefined} \cup
         {Some(s) : s \in SortedSeqsOver({NewDate(2020, 0, 19), NewDate(2020, 0, 27),
                                          NewDate(2020, 1, 1)}, MaxDates)},
     unselectableDaysOfWeek : {Undefined, Some(<<1>>)},
     selectableDates : {Undefined, Some(<<NewDate(2020, 0, 29)>>)},
     nearbyMonthDays : BOOLEAN,
     nearbySelectableMonthDays : {FALSE},
     range : BOOLEAN,
     selectedDate : {Undefined},
     hoveredDateRange : {Undefined},
     multiple : {FALSE},
     dateCreator : {WeekFrom},
     events : {Undefined},
     firstDayOfWeek : {0},
     rulesForFirstWeek : {4}]

\* a row without constraints
RowDefaultProps ==
    [week |-> RowWeek, month |-> 0, minDate |-> Undefined, maxDate |-> Undefined,
     disabled |-> FALSE, unselectableDates |-> Undefined, unselectableDaysOfWeek |-> Undefined,
     selectableDates |-> Undefined, nearbyMonthDays |-> FALSE,
     nearbySelectableMonthDays |-> FALSE, range |-> FALSE, selectedDate |-> Undefined,
     hoveredDateRange |-> Undefined, multiple |-> FALSE, dateCreator |-> WeekFrom,
     events |-> Undefined, firstDayOfWeek |-> 0, rulesForFirstWeek |-> 4]

\* a Datetimepicker without value and without bounds
DtDefaultProps == [value |-> JsUndefined, minDatetime |-> Undefined, maxDatetime |-> Undefined]

\* data(): newValue is this.value
InitDtIdle ==
    /\ dtProps = DtDefaultProps
    /\ newValue = dtProps.value
    /\ dtInput = <<>>
    /\ dtEmitted = <<>>

InitRowIdle ==
    /\ pc = "idle"
    /\ op = "none"
    /\ day = WeekFrom
    /\ inc = 0
    /\ nextDay = WeekFrom
    /\ emitted = <<>>
    /\ defaultPrevented = FALSE

InitFnIdle ==
    /\ arg = WeekFrom
    /\ ret = <<>>

InitRow ==
    /\ props \in RowProps
    /\ InitRowIdle
    /\ InitDtIdle
    /\ InitFnIdle
    /\ InitOvIdle

NextRow ==
    \/ \E weekDay \in WeekFrom..(WeekFrom + 6) : Click(weekDay)
    \/ \E weekDay \in WeekFrom..(WeekFrom + 6) : MouseEnter(weekDay)
    \/ \E weekDay \in WeekFrom..(WeekFrom + 6) : CallEmitChosenDate(weekDay)
    \/ \E key \in Keys : \E weekDay \in WeekFrom..(WeekFrom + 6) :
           manageKeydown(key, weekDay)
    \/ changeFocusTest
    \/ changeFocusStep
    \/ changeFocusEnd
    \/ Return

SpecRow == InitRow /\ [][NextRow]_vars

\* a handler that has started runs on: the UI thread executes it to completion
FairSpecRow ==
    /\ SpecRow
    /\ WF_vars(changeFocusTest)
    /\ WF_vars(changeFocusStep)
    /\ WF_vars(changeFocusEnd)
    /\ WF_vars(Return)

(***************************************************************************)
(* selectableDate as a function of the date and the constraints            *)
(***************************************************************************)
ListDates == {NewDate(2020, 0, 31), NewDate(2020, 1, 1)}
ListDays == {5, 6}
ArgDates == {NewDate(2020, 0, 30), NewDate(2020, 0, 31), NewDate(2020, 1, 1), NewDate(2021, 0, 31)}

SelProps ==
    [week : {RowWeek},
     month : {0, 1},
     minDate : {Undefined, Some(NewDate(2020, 0, 31))},
     maxDate : {Undefined, Some(NewDate(2020, 0, 31))},
     disabled : {FALSE},
     unselectableDates : {Undefined} \cup {Some(s) : s \in SeqsOver(ListDates, MaxDates)},
     unselectableDaysOfWeek : {Undefined} \cup {Some(s) : s \in SeqsOver(ListDays, MaxDates)},
     selectableDates : {Undefined} \cup {Some(s) : s \in SeqsOver(ListDates, MaxDates)},
     nearbyMonthDays : BOOLEAN,
     nearbySelectableMonthDays : BOOLEAN,
     range : {FALSE},
     selectedDate : {Undefined},
     hoveredDateRange : {Undefined},
     multiple : {FALSE},
     dateCreator : {WeekFrom},
     events : {Undefined},
     firstDayOfWeek : {0},
     rulesForFirstWeek : {4}]

InitSelectable ==
    /\ props \in SelProps
    /\ InitRowIdle
    /\ InitDtIdle
    /\ arg \in ArgDates
    /\ ret = <<>>
    /\ InitOvIdle

\* selectableDate(arg) is evaluated: a first time, and again once the rest of
\* the component's state has changed
CallSelectableDate ==
    /\ IF ret = <<>> THEN TRUE ELSE Len(ret) = 1 /\ IsSet(props.selectedDate)
    /\ ret' = Append(ret, selectableDate(arg))
    /\ UNCHANGED <<arg, rowVars, dtVars, ovVars>>

\* the host passes new values of the props selectableDate does not read: the
\* date becomes the selection and the start of the hovered range, the next day today
SelectionChange ==
    /\ Len(ret) = 1
    /\ ~IsSet(props.selectedDate)
    /\ props' = [props EXCEPT !.selectedDate = Some(DateValue(arg)),
                              !.hoveredDateRange = Some(DatesValue(<<arg, arg + 1>>)),
                              !.dateCreator = arg + 1]
    /\ UNCHANGED <<pc, op, day, inc, nextDay, emitted, defaultPrevented>>
    /\ UNCHANGED <<fnVars, dtVars, ovVars>>

NextSelectable ==
    \/ CallSelectableDate
    \/ SelectionChange

SpecSelectable == InitSelectable /\ [][NextSelectable]_vars

(***************************************************************************)
(* Week numbers as a function of the date and the two settings             *)
(***************************************************************************)
\* a call: the function, its argument, the component's state and the value returned
Call(fn, a, value) == [fn |-> fn, mom |-> a, this |-> props, value |-> value]

WeekProps ==
    {[RowDefaultProps EXCEPT !.firstDayOfWeek = dow, !.rulesForFirstWeek = doy] :
        dow \in 0..6, doy \in {1, 4}}

InitWeek ==
    /\ props \in WeekProps
    /\ InitRowIdle
    /\ InitDtIdle
    /\ arg \in DOMAIN Calendar
    /\ ret = <<>>
    /\ InitOvIdle

\* the template renders {{ getWeekNumber(week[6]) }}, once more after a change
CallGetWeekNumber ==
    /\ Len(ret) < 2
    /\ IF ret = <<>> THEN TRUE ELSE ret[1].fn = "getWeekNumber"
    /\ ret' = Append(ret, Call("getWeekNumber", arg, getWeekNumber(arg)))
    /\ UNCHANGED <<arg, rowVars, dtVars, ovVars>>

CallWeeksInYear ==
    /\ ret = <<>>
    /\ ret' = <<Call("weeksInYear", GetFullYear(arg),
                     weeksInYear(GetFullYear(arg), props.firstDayOfWeek,
                                 props.rulesForFirstWeek))>>
    /\ UNCHANGED <<arg, rowVars, dtVars, ovVars>>

\* the host shows another month: the month prop changes, the settings do not
MonthChange ==
    /\ Len(ret) = 1
    /\ \E month \in {0, 1} \ {props.month} : props' = [props EXCEPT !.month = month]
    /\ UNCHANGED <<pc, op, day, inc, nextDay, emitted, defaultPrevented>>
    /\ UNCHANGED <<fnVars, dtVars, ovVars>>

SpecWeek == InitWeek /\ [][CallGetWeekNumber \/ CallWeeksInYear \/ MonthChange]_vars

\* the calls of fn made so far
CallsOf(fn) == {i \in 1..Len(ret) : ret[i].fn = fn}

\* C11: getWeekNumber returns a whole number between 1 and 53, for every date
\* of the years of the model, every firstDayOfWeek in 0..6 and rulesForFirstWeek 1 or 4.
C11_WeekNumberInRange ==
    \A i \in CallsOf("getWeekNumber") :
        /\ ret[i].value.rem = 0
        /\ ret[i].value.int \in 1..53

\* C11 witness: Sunday 2017-12-31 with Sunday-start weeks and week 1 holding
\* January 1 lies after the last week of 2017: week 1 of 2018
C11_Witness ==
    /\ Len(ret) = 1
    /\ ret[1] = Call("getWeekNumber", NewDate(2017, 11, 31), [int |-> 1, rem |-> 0])
    /\ props.firstDayOfWeek = 0
    /\ props.rulesForFirstWeek = 1

\* C12: weeksInYear is a whole number, 52 or 53, for every year of the model,
\* every firstDayOfWeek in 0..6 and rulesForFirstWeek 1 or 4.
C12_WeeksInYear52Or53 ==
    \A i \in CallsOf("weeksInYear") :
        /\ ret[i].value.rem = 0
        /\ ret[i].value.int \in {52, 53}

\* C12 witness: 2020 has 53 ISO weeks
C12_Witness ==
    /\ ret = <<Call("weeksInYear", 2020, [int |-> 53, rem |-> 0])>>
    /\ props.firstDayOfWeek = 1
    /\ props.rulesForFirstWeek = 4

\* ISO 8601: the week of a date is numbered in the year of its Thursday
IsoThursday(d) == d - ((GetDay(d) + 6) % 7) + 3
IsoWeek(d) == ((IsoThursday(d) - NewDate(Civil(IsoThursday(d)).y, 0, 1)) \div 7) + 1

\* C13: with firstDayOfWeek 1 and rulesForFirstWeek 4 getWeekNumber is the ISO 8601
\* week number, for every date of the years of the model.
C13_IsoWeekNumber ==
    (props.firstDayOfWeek = 1 /\ props.rulesForFirstWeek = 4) =>
        \A i \in CallsOf("getWeekNumber") :
            ret[i].value = [int |-> IsoWeek(ret[i].mom), rem |-> 0]

\* C13 witness: 2021-01-01 belongs to week 53 of 2020
C13_Witness ==
    /\ props.firstDayOfWeek = 1
    /\ props.rulesForFirstWeek = 4
    /\ Len(ret) = 1
    /\ ret[1].fn = "getWeekNumber"
    /\ ret[1].mom = NewDate(2021, 0, 1)
    /\ ret[1].value.int = 53

Years == 2017..(2016 + MaxYears)

IsJanuaryFirst(d) == GetMonth(d) = 0 /\ GetDate(d) = 1

EventPool ==
    {[date |-> NewDate(2020, 1, 4), type |-> "a"], [date |-> NewDate(2020, 1, 6), type |-> "b"]}

CellProps ==
    {[RowDefaultProps EXCEPT !.events = events, !.disabled = disabled,
                             !.unselectableDaysOfWeek = days,
                             !.nearbyMonthDays = nearby[1],
                             !.nearbySelectableMonthDays = nearby[2],
                             !.selectedDate = selected, !.multiple = multiple,
                             !.hoveredDateRange = hovered] :
        events \in {Undefined} \cup {Some(l) : l \in SeqsOver(EventPool, MaxDates)},
        disabled \in BOOLEAN,
        days \in {Undefined, Some(<<2>>)},
        nearby \in BOOLEAN \X BOOLEAN,
        selected \in {Undefined, Some(DateValue(NewDate(2020, 0, 29))),
                      Some(DatesValue(<<NewDate(2020, 0, 28), NewDate(2020, 0, 30)>>))},
        multiple \in BOOLEAN,
        hovered \in {Undefined, Some(DatesValue(<<NewDate(2020, 0, 29), NewDate(2020, 0, 31)>>))}}

InitCells ==
    /\ props \in CellProps
    /\ InitRowIdle
    /\ InitDtIdle
    /\ arg \in WeekFrom..(WeekFrom + 6)
    /\ ret = <<>>
    /\ InitOvIdle

\* :class="cellClasses(weekDay)"
CallCellClasses ==
    /\ ret = <<>>
    /\ ret' = <<Call("cellClasses", arg, cellClasses(arg))>>
    /\ UNCHANGED <<arg, rowVars, dtVars, ovVars>>

\* v-if="eventsDateMatch(weekDay)"
CallEventsDateMatch ==
    /\ ret = <<>>
    /\ ret' = <<Call("eventsDateMatch", arg, eventsDateMatch(arg))>>
    /\ UNCHANGED <<arg, rowVars, dtVars, ovVars>>

SpecCells == InitCells /\ [][CallCellClasses \/ CallEventsDateMatch]_vars

\* the events of the list whose date has the weekday of d, in the order of the list
SameWeekdayEvents(d) ==
    IF IsSet(props.events)
    THEN SelectSeq(Val(props.events), LAMBDA event : GetDay(event.date) = GetDay(d))
    ELSE <<>>

C16_EventsFlagIffMatch ==
    \A i \in CallsOf("cellClasses") :
        ret[i].value.events <=> (eventsDateMatch(ret[i].mom) # BoolProp(FALSE))

\* C19: cellClasses sets exactly one of the selectable and unselectable flags:
\* selectable when selectableDate(day) holds and disabled is off, unselectable otherwise.
C19_SelectableXorUnselectable ==
    \A i \in CallsOf("cellClasses") :
        /\ ret[i].value.selectable <=> (selectableDate(ret[i].mom) /\ ~props.disabled)
        /\ ret[i].value.unselectable <=> ~ret[i].value.selectable

\* C19 witness: a selectable date of a disabled row is flagged unselectable
C19_Witness ==
    /\ Len(ret) = 1
    /\ ret[1].fn = "cellClasses"
    /\ selectableDate(ret[1].mom)
    /\ props.disabled
    /\ ret[1].value.unselectable
    /\ ~ret[1].value.selectable

(***************************************************************************)
(* The native input of the Datetimepicker                                  *)
(***************************************************************************)
\* the texts the native input hands over: empty, partial, not a date, complete
NativeTexts ==
    {<<>>,
     <<"2", "0", "2", "0">>,
     <<"2", "0", "2", "0", "-", "0", "1", "-", "2", "9">>,
     <<"2", "0", "2", "0", "-", "0", "1", "-", "2", "9", "T", "1", "0">>,
     <<"2", "0", "2", "0", "-", "0", "1", "-", "2", "9", "T">>,
     <<"a", "b", "c">>,
     <<"a", "b", "c", "d">>,
     <<"2", "0", "2", "0", "-", "0", "1", "-", "2", "9", "T", ":">>,
     <<"2", "0", "2", "0", "-", "0", "1", "-", "2", "9", "T", "1", "0", ":", "3", "0">>,
     <<"2", "0", "2", "0", "-", "0", "1", "-", "2", "9", "T", "1", "0", ":", "3", "0", ":", "1", "5">>,
     <<"2", "0", "2", "0", "-", "0", "2", "-", "0", "1", "T", "0", "0", ":", "0", "0">>,
     <<"2", "0", "2", "0", "-", "0", "1", "-", "2", "8", "T", "2", "3", ":", "5", "9">>,
     <<"2", "0", "2", "0", "-", "0", "1", "-", "3", "1", "T", "0", "7", ":", "0", "5">>}

\* a Datetimepicker on a mobile device: the native input is rendered
InitNative ==
    /\ dtProps \in [value : {JsUndefined, Null, JsDate(NewDate(2020, 0, 28), 8, 15, 20)},
                     minDatetime : {Undefined, Some(JsDate(NewDate(2020, 0, 29), 9, 0, 0))},
                     maxDatetime : {Undefined, Some(JsDate(NewDate(2020, 0, 30), 18, 0, 0))}]
    /\ newValue = dtProps.value
    /\ dtInput = <<>>
    /\ dtEmitted = <<>>
    /\ props = RowDefaultProps
    /\ InitRowIdle
    /\ InitFnIdle
    /\ InitOvIdle

\* the values the datepicker (a day at midnight) and the timepicker hand over
PickerValues ==
    {Null} \cup
    {JsDate(t, time[1], time[2], time[3]) :
        t \in {NewDate(2020, 0, 28), NewDate(2020, 0, 29), NewDate(2020, 1, 1)},
        time \in {<<0, 0, 0>>, <<10, 30, 0>>, <<0, 0, 5>>, <<23, 59, 59>>}}

SpecNative ==
    InitNative /\ [][\/ \E text \in NativeTexts : onChangeNativePicker(text)
                     \/ \E value \in PickerValues : SetComputedValue(value)]_vars

\* the number of tokens of a text: one more than its characters that are not digits
TokenCount(text) ==
    IF text = <<>>
    THEN 0
    ELSE Cardinality({i \in 1..Len(text) : text[i] \notin DOMAIN DigitValue}) + 1

\* a change of the native input to a text with fewer than 5 tokens stores null
\* and emits 'input' with null
ShortTextGivesNull ==
    \A text \in NativeTexts :
        (onChangeNativePicker(text) /\ TokenCount(text) < 5) =>
            (newValue' = Null /\ dtEmitted' = <<Event("input", Null)>>)

\* C20: when the text of the native input splits on non-digits into fewer than 5
\* tokens (the empty text included), onChangeNativePicker sets newValue to null
\* and emits 'input' with null: no Date is built from the tokens there are.
C20_ShortNativeTextGivesNull == [][ShortTextGivesNull]_vars

\* C20 witness: the text 2020-01-29T10 (4 tokens) has been entered and null stored
C20_Witness ==
    /\ dtInput = <<"2", "0", "2", "0", "-", "0", "1", "-", "2", "9", "T", "1", "0">>
    /\ newValue = Null
    /\ dtEmitted = <<Event("input", Null)>>

\* a <= b as JavaScript compares two Dates: false when one is the Invalid Date
NotAfter(a, b) ==
    /\ a.kind = "Date"
    /\ b.kind = "Date"
    /\ a.date * 86400 + a.hours * 3600 + a.minutes * 60 + a.seconds
           <= b.date * 86400 + b.hours * 3600 + b.minutes * 60 + b.seconds

\* C21: every value other than null that the computedValue setter stores and
\* emits with 'input' lies between minDatetime and maxDatetime, for the bounds
\* that are set.
C21_StoredValueWithinBounds ==
    \A i \in 1..Len(dtEmitted) :
        LET v == dtEmitted[i].payload
        IN (v.kind \notin {"null", "undefined"}) =>
               /\ newValue = v
               /\ (IsSet(dtProps.minDatetime) => NotAfter(Val(dtProps.minDatetime), v))
               /\ (IsSet(dtProps.maxDatetime) => NotAfter(v, Val(dtProps.maxDatetime)))

(***************************************************************************)
(* Keyboard navigation (changeFocus)                                       *)
(***************************************************************************)
\* d lies inside the min/max bounds that are set
InBounds(d) ==
    /\ (IF IsSet(props.minDate) THEN d >= Val(props.minDate) ELSE TRUE)
    /\ (IF IsSet(props.maxDate) THEN d <= Val(props.maxDate) ELSE TRUE)

\* the focus target changeFocus reported
FocusTarget == emitted[Len(emitted)].payload

FocusReported ==
    /\ pc = "done"
    /\ op = "keydown"
    /\ inc # 0
    /\ Len(emitted) > 0
    /\ emitted[Len(emitted)].name = "change-focus"

\* the first date from candidate c on, going one day at a time in direction s,
\* that is selectable or at which a bound is reached
RECURSIVE FirstStop(_, _)
FirstStop(c, s) ==
    IF c \notin CalFrom..CalTo
    THEN c
    ELSE IF ~changeFocusCond(c) THEN c ELSE FirstStop(c + s, s)

\* C1: ArrowRight from a focused date D whose next day is unselectable and whose
\* day after is selectable, both inside the bounds: the handler reports D + 2.
C1_OneUnselectableDaySkipped ==
    (/\ pc = "done"
     /\ op = "keydown"
     /\ inc = 1
     /\ InBounds(day + 1)
     /\ InBounds(day + 2)
     /\ ~selectableDate(day + 1)
     /\ selectableDate(day + 2))
    => (FocusReported /\ FocusTarget = day + 2)

\* C2: with the bound of the direction of travel set (maxDate going forward,
\* minDate going backward), the loop of changeFocus is always left and
\* 'change-focus' is emitted with the last candidate evaluated.
C2_ChangeFocusTerminates ==
    []((/\ pc = "loop"
        /\ (IF inc > 0 THEN IsSet(props.maxDate) ELSE IsSet(props.minDate)))
       => <>(FocusReported /\ FocusTarget = nextDay))

\* C3: the date reported for an arrow key is the first date, from D + inc on and
\* one day at a time in the direction of inc, that is selectable or at a bound.
C3_FirstSelectableFromCandidate ==
    FocusReported => FocusTarget = FirstStop(day + inc, Sign(inc))

\* the events of name emitted by the running handler
Emitted(name) == SelectSeq(emitted, LAMBDA e : e.name = name)

\* the step is a commit on the date d: a click, Enter or Space, or emitChosenDate(d)
IsCommit(d) ==
    \/ Click(d)
    \/ CallEmitChosenDate(d)
    \/ \E key \in {" ", "Space", "Spacebar", "Enter"} : manageKeydown(key, d)

\* what a step emits: 'select' from a commit on a selectable date of an enabled
\* row, and from nothing else
SelectOnlyFromCommit ==
    /\ \A d \in WeekFrom..(WeekFrom + 6) :
           IsCommit(d) =>
               emitted' = (IF selectableDate(d) /\ ~props.disabled
                           THEN <<Event("select", d)>>
                           ELSE <<>>)
    /\ \A i \in 1..Len(emitted') :
           emitted'[i].name = "select" =>
               /\ selectableDate(emitted'[i].payload)
               /\ ~props.disabled
               /\ IsCommit(emitted'[i].payload)

\* C17: Enter, Space or a click on a date emits 'select' with that date exactly
\* when selectableDate(date) holds and disabled is off; every 'select' carries a
\* date that is selectable when it is emitted; no other handler emits 'select'.
C17_CommitSubjectToSelectability == [][SelectOnlyFromCommit]_vars

\* C17 witness: Enter or Space on 2020-01-29 has emitted 'select' with that date
C17_Witness ==
    /\ pc = "done"
    /\ op = "keydown"
    /\ day = NewDate(2020, 0, 29)
    /\ emitted = <<Event("select", NewDate(2020, 0, 29))>>

\* C18: changeFocus emits 'change-focus' exactly once with the resulting date,
\* 'rangeHoverEndDate' with the same date exactly when range is on, never
\* 'select', and leaves the props and the date passed in unchanged.
C18_ChangeFocusReportsOnce ==
    /\ [](pc = "loop" =>
             <>(/\ pc = "done"
                /\ Len(Emitted("change-focus")) = 1
                /\ Emitted("change-focus")[1].payload = nextDay
                /\ Emitted("rangeHoverEndDate")
                       = (IF props.range THEN <<Event("rangeHoverEndDate", nextDay)>> ELSE <<>>)
                /\ Emitted("select") = <<>>))
    /\ [][(pc # "idle") => (props' = props /\ (pc' # "idle" => day' = day))]_vars

(***************************************************************************)
(* Pages with overlays                                                     *)
(***************************************************************************)
\* a page with one dropdown
InitDropdown ==
    /\ docListeners = ddCreated(<<>>)
    /\ ev = NoEvent
    /\ ddProps \in DdPropsSet
    /\ ddMounted = TRUE
    /\ InitDdData
    /\ ttProps = TtDefaultProps
    /\ ttMounted = FALSE
    /\ InitTtData
    /\ props = RowDefaultProps
    /\ InitRowIdle
    /\ InitDtIdle
    /\ InitFnIdle

NextDropdown ==
    \/ ClickDdTrigger
    \/ ClickToggler
    \/ \E value \in Items : ClickDdItem(value)
    \/ \E target \in PlainTargets : ClickPlain(target)
    \/ DocumentClick
    \/ \E key \in UpKeys : DocumentKeyUp(key)
    \/ onContextMenu
    \/ onFocus
    \/ onHover
    \/ ddMouseLeave
    \/ ddTick
    \/ ddTimerFire
    \/ ddBeforeUnmount

SpecDropdown == InitDropdown /\ [][NextDropdown]_vars

\* a page with one tooltip
InitTooltip ==
    /\ docListeners = ttCreated(<<>>)
    /\ ev = NoEvent
    /\ ddProps = DdDefaultProps
    /\ ddMounted = FALSE
    /\ InitDdData
    /\ ttProps \in TtPropsSet
    /\ ttMounted = TRUE
    /\ InitTtData
    /\ props = RowDefaultProps
    /\ InitRowIdle
    /\ InitDtIdle
    /\ InitFnIdle

NextTooltip ==
    \/ ClickTtTrigger
    \/ \E target \in PlainTargets : ClickPlain(target)
    \/ DocumentClick
    \/ \E key \in UpKeys : DocumentKeyUp(key)
    \/ \E type \in {"hover", "focus", "contextmenu"} : ttTrigger(type)
    \/ \E type \in {"blur", "mouseleave"} : close(type)
    \/ ttTick
    \/ ttClickTimerFire
    \/ ttDelayTimerFire
    \/ ttBeforeUnmount

SpecTooltip == InitTooltip /\ [][NextTooltip]_vars

\* a page with one dropdown and one tooltip
OvDdPropsSet ==
    [disabled : {FALSE}, inline : {FALSE}, multiple : {FALSE}, closeOnClick : {TRUE},
     canClose : {BoolProp(TRUE), ArrayProp(<<"escape">>)},
     triggers : {<<"click">>}]

OvTtPropsSet ==
    [active : {TRUE}, always : {FALSE}, delay : {100},
     triggers : {<<"click", "hover">>},
     autoClose : {ArrayProp(<<"inside", "outside", "escape">>)}]

InitOverlay ==
    /\ docListeners = ttCreated(ddCreated(<<>>))
    /\ ev = NoEvent
    /\ ddProps \in OvDdPropsSet
    /\ ddMounted = TRUE
    /\ InitDdData
    /\ ttProps \in OvTtPropsSet
    /\ ttMounted = TRUE
    /\ InitTtData
    /\ props = RowDefaultProps
    /\ InitRowIdle
    /\ InitDtIdle
    /\ InitFnIdle

NextOverlay ==
    \/ ClickDdTrigger
    \/ ClickToggler
    \/ \E value \in Items : ClickDdItem(value)
    \/ ClickTtTrigger
    \/ \E target \in PlainTargets : ClickPlain(target)
    \/ DocumentClick
    \/ \E key \in UpKeys : DocumentKeyUp(key)
    \/ onContextMenu
    \/ onFocus
    \/ onHover
    \/ ddMouseLeave
    \/ \E type \in {"hover", "focus", "contextmenu"} : ttTrigger(type)
    \/ \E type \in {"blur", "mouseleave"} : close(type)
    \/ ddTick
    \/ ddTimerFire
    \/ ttTick
    \/ ttClickTimerFire
    \/ ttDelayTimerFire
    \/ ddBeforeUnmount
    \/ ttBeforeUnmount

SpecOverlay == InitOverlay /\ [][NextOverlay]_vars

(***************************************************************************)
(* Selectability (selectableDate)                                          *)
(***************************************************************************)
Called == ret # <<>>

\* calendar-day equality: same day, month and year
CalendarEqual(a, b) ==
    /\ GetDate(a) = GetDate(b)
    /\ GetMonth(a) = GetMonth(b)
    /\ GetFullYear(a) = GetFullYear(b)

HasAllowList ==
    /\ IsSet(props.selectableDates)
    /\ Len(Val(props.selectableDates)) > 0

OnAllowList(d) ==
    /\ IsSet(props.selectableDates)
    /\ \E i \in 1..Len(Val(props.selectableDates)) :
           CalendarEqual(d, Val(props.selectableDates)[i])

MinDateHolds(d) == IF IsSet(props.minDate) THEN d >= Val(props.minDate) ELSE TRUE
MaxDateHolds(d) == IF IsSet(props.maxDate) THEN d <= Val(props.maxDate) ELSE TRUE
MonthHolds(d) ==
    IF props.nearbyMonthDays /\ ~props.nearbySelectableMonthDays
    THEN GetMonth(d) = props.month
    ELSE TRUE
DenyListHolds(d) ==
    IF IsSet(props.unselectableDates)
    THEN \A i \in 1..Len(Val(props.unselectableDates)) :
             ~CalendarEqual(d, Val(props.unselectableDates)[i])
    ELSE TRUE
WeekdayHolds(d) ==
    IF IsSet(props.unselectableDaysOfWeek)
    THEN \A i \in 1..Len(Val(props.unselectableDaysOfWeek)) :
             GetDay(d) # Val(props.unselectableDaysOfWeek)[i]
    ELSE TRUE

\* C4: a date that is calendar-equal to an entry of selectableDates, at any
\* position, is selectable whatever the other constraints say.
C4_AllowListOverrides ==
    (Called /\ OnAllowList(arg)) => ret[1] = TRUE

\* C4 witness: the match is the second entry and the weekday rule excludes the date
C4_Witness ==
    /\ Called
    /\ IsSet(props.selectableDates)
    /\ Len(Val(props.selectableDates)) = 2
    /\ ~CalendarEqual(arg, Val(props.selectableDates)[1])
    /\ CalendarEqual(arg, Val(props.selectableDates)[2])
    /\ ~WeekdayHolds(arg)
    /\ ret[1] = TRUE

\* C5: with a non-empty selectableDates none of whose entries is calendar-equal
\* to the date, the date is not selectable, whatever the other constraints are.
C5_UnmatchedAllowListForbids ==
    (Called /\ HasAllowList /\ ~OnAllowList(arg)) => ret[1] = FALSE

\* C5 witness: an unmatched allow-list and no other constraint set
C5_Witness ==
    /\ Called
    /\ HasAllowList
    /\ ~OnAllowList(arg)
    /\ ~IsSet(props.minDate)
    /\ ~IsSet(props.maxDate)
    /\ ~IsSet(props.unselectableDates)
    /\ ~IsSet(props.unselectableDaysOfWeek)
    /\ ~props.nearbyMonthDays
    /\ ret[1] = FALSE

\* C6: without an allow-list (absent or empty) the date is selectable exactly
\* when every applicable predicate holds.
C6_NoAllowListConjunction ==
    (Called /\ ~HasAllowList) =>
        (ret[1] = (/\ MinDateHolds(arg)
                   /\ MaxDateHolds(arg)
                   /\ MonthHolds(arg)
                   /\ DenyListHolds(arg)
                   /\ WeekdayHolds(arg)))

\* C6 witness: every constraint is set, only the weekday rule fails
C6_Witness ==
    /\ Called
    /\ IsSet(props.selectableDates)
    /\ ~HasAllowList
    /\ IsSet(props.minDate)
    /\ IsSet(props.maxDate)
    /\ IsSet(props.unselectableDates)
    /\ props.nearbyMonthDays
    /\ ~props.nearbySelectableMonthDays
    /\ MinDateHolds(arg)
    /\ MaxDateHolds(arg)
    /\ MonthHolds(arg)
    /\ DenyListHolds(arg)
    /\ Len(Val(props.unselectableDates)) > 0
    /\ ~WeekdayHolds(arg)
    /\ ret[1] = FALSE

(***************************************************************************)
(* Dropdown and tooltip: opening, dismissal, listeners                     *)
(***************************************************************************)
\* the scenario of C7: triggers ['click'], canClose true, not disabled, not inline
ClickScenario ==
    /\ ddMounted
    /\ ddProps.triggers = <<"click">>
    /\ ddProps.canClose = BoolProp(TRUE)
    /\ ~ddProps.disabled
    /\ ~ddProps.inline

\* every deferred callback of the dropdown has run
ddSettled == ddTicks = 0 /\ ddTimers = <<>>

\* C7: in the click scenario, a click on the trigger of a closed dropdown leaves it
\* open once the deferred callbacks have run; while open, a document click outside
\* the trigger and the menu closes it; while open, an Escape keyup closes it.
C7_ClickScenario ==
    /\ []((/\ ClickScenario
           /\ ev = UserEvent("click", "ddTrigger", "done", TRUE)
           /\ ddSettled) => ddIsActive)
    /\ [][(/\ ClickScenario
           /\ ddIsActive
           /\ DocumentClick
           /\ ~ddIsInWhiteList(ev.target)) => ~ddIsActive']_vars
    /\ [][(/\ ClickScenario
           /\ ddIsActive
           /\ DocumentKeyUp("Escape")) => ~ddIsActive']_vars

\* C7 witness: the click on the trigger of a closed dropdown has opened it
C7_Witness ==
    /\ ClickScenario
    /\ ev = UserEvent("click", "ddTrigger", "done", TRUE)
    /\ ddSettled
    /\ ddIsActive

\* C8: a toggle() called while the dropdown is closed is not lost to the document
\* click of the same event: however the document click interleaves with the
\* next-tick callback and the timer, the dropdown is open once the timer has fired.
C8_OpenSurvivesOutsideClick ==
    (/\ ev.type = "click"
     /\ ev.target \in {"ddTrigger", "toggler"}
     /\ ev.opening
     /\ ev.phase = "done"
     /\ ddSettled) => ddIsActive

\* C8 witness: toggle() called from a click outside a dropdown that outside clicks close
C8_Witness ==
    /\ ev = UserEvent("click", "toggler", "done", TRUE)
    /\ IndexOf(cancelOptions, "outside") >= 0
    /\ ~ddProps.inline
    /\ ddSettled
    /\ ddIsActive

\* C9: with a delay and autoClose true, close() cancels every pending open timer.
C9_CloseCancelsEveryOpenTimer ==
    [][(/\ ttProps.delay > 0
        /\ ttProps.autoClose = BoolProp(TRUE)
        /\ \E type \in {"blur", "mouseleave"} : close(type)) => ttPending' = <<>>]_vars

ListenerCount(type, owner) ==
    Cardinality({i \in 1..Len(docListeners) : docListeners[i] = Listener(type, owner)})

\* C10: an instance has one click and one keyup listener on the document while it
\* is mounted and none after beforeUnmount; document clicks and keyups after the
\* teardown leave its isActive unchanged.
C10_ListenersReleased ==
    /\ [](/\ ListenerCount("click", "dropdown") = (IF ddMounted THEN 1 ELSE 0)
          /\ ListenerCount("keyup", "dropdown") = (IF ddMounted THEN 1 ELSE 0)
          /\ ListenerCount("click", "tooltip") = (IF ttMounted THEN 1 ELSE 0)
          /\ ListenerCount("keyup", "tooltip") = (IF ttMounted THEN 1 ELSE 0))
    /\ [][(DocumentClick \/ \E key \in UpKeys : DocumentKeyUp(key)) =>
              /\ (~ddMounted => ddIsActive' = ddIsActive)
              /\ (~ttMounted => ttIsActive' = ttIsActive)]_vars

\* C10 witness: both instances were torn down while open, then an outside click
\* that their options would have closed them on left both open
C10_Witness ==
    /\ ~ddMounted
    /\ ~ttMounted
    /\ docListeners = <<>>
    /\ ev = UserEvent("click", "outside", "done", FALSE)
    /\ ddProps.canClose = BoolProp(TRUE)
    /\ IndexOf(ttProps.autoClose.list, "outside") >= 0
    /\ ddIsActive
    /\ ttIsActive

(***************************************************************************)
(* Trigger sets of the dropdown and the tooltip                            *)
(***************************************************************************)
\* a page with one dropdown and one tooltip; between the two settings of each,
\* every kind of event is at least once not configured
InitTriggers ==
    /\ docListeners = ttCreated(ddCreated(<<>>))
    /\ ev = NoEvent
    /\ ddProps \in {[DdDefaultProps EXCEPT !.triggers = t] :
                       t \in {<<"click">>, <<"hover">>}}
    /\ ddMounted = TRUE
    /\ InitDdData
    /\ ttProps \in {[TtDefaultProps EXCEPT !.triggers = <<"click", "hover">>],
                     [TtDefaultProps EXCEPT !.triggers = <<"focus", "contextmenu">>,
                                            !.delay = 100]}
    /\ ttMounted = TRUE
    /\ InitTtData
    /\ props = RowDefaultProps
    /\ InitRowIdle
    /\ InitDtIdle
    /\ InitFnIdle

SpecTriggers == InitTriggers /\ [][NextOverlay]_vars

Configured(triggers, kind) == \E i \in 1..Len(triggers) : triggers[i] = kind

\* the step changes neither isActive nor isHoverable of the dropdown and
\* schedules no deferred open
DdUntouched ==
    /\ ddIsActive' = ddIsActive
    /\ ddIsHoverable' = ddIsHoverable
    /\ ddTicks' = ddTicks
    /\ ddTimers' = ddTimers

\* the step does not change isActive of the tooltip and schedules no deferred open
TtUntouched ==
    /\ ttIsActive' = ttIsActive
    /\ ttTicks' = ttTicks
    /\ ttClickTimers' = ttClickTimers
    /\ ttPending' = ttPending
    /\ ttTimer' = ttTimer

UnconfiguredTriggerIgnored ==
    /\ (ClickDdTrigger /\ ~Configured(ddProps.triggers, "click")) => DdUntouched
    /\ (onContextMenu /\ ~Configured(ddProps.triggers, "contextmenu")) => DdUntouched
    /\ (onFocus /\ ~Configured(ddProps.triggers, "focus")) => DdUntouched
    /\ (onHover /\ ~Configured(ddProps.triggers, "hover")) => DdUntouched
    /\ (ClickTtTrigger /\ ~Configured(ttProps.triggers, "click")) => TtUntouched
    /\ \A type \in {"hover", "focus", "contextmenu"} :
           (ttTrigger(type) /\ ~Configured(ttProps.triggers, type)) => TtUntouched

\* C23: in the dropdown and in the tooltip, a click, contextmenu, focus or
\* hover-enter whose kind is not in the triggers list has no effect: it changes
\* neither isActive nor isHoverable and schedules no deferred open.
C23_UnconfiguredTriggerIgnored == [][UnconfiguredTriggerIgnored]_vars

\* C23 witness: a click on the trigger of a closed dropdown whose triggers do not
\* list 'click' has left it closed with nothing scheduled
C23_Witness ==
    /\ ev.type = "click"
    /\ ev.target = "ddTrigger"
    /\ ~Configured(ddProps.triggers, "click")
    /\ ~ddIsActive
    /\ ddTicks = 0
    /\ ddTimers = <<>>

(***************************************************************************)
(* Dropdown: dismissal per option                                          *)
(***************************************************************************)
\* canClose enables the option: true enables both, false none, an array what it lists
DismissalEnabled(option) ==
    IF ddProps.canClose = BoolProp(TRUE)
    THEN TRUE
    ELSE IF ddProps.canClose = BoolProp(FALSE)
         THEN FALSE
         ELSE \E i \in 1..Len(ddProps.canClose.list) : ddProps.canClose.list[i] = option

\* the document's click and keyup listeners close a mounted dropdown exactly
\* when the option of the event is enabled
DismissalPerOption ==
    /\ (ddMounted /\ DocumentClick) =>
           ddIsActive' = (IF /\ DismissalEnabled("outside")
                             /\ ~ddProps.inline
                             /\ ev.target \notin {"ddMenu", "ddItem", "ddTrigger"}
                          THEN FALSE
                          ELSE ddIsActive)
    /\ \A key \in UpKeys :
           (ddMounted /\ DocumentKeyUp(key)) =>
               ddIsActive' = (IF DismissalEnabled("escape") /\ key \in {"Escape", "Esc"}
                              THEN FALSE
                              ELSE ddIsActive)

\* C22: an outside click closes the dropdown only when 'outside' is enabled and an
\* Escape keyup only when 'escape' is enabled; canClose = true enables both, false
\* none, an array the listed options; an event whose option is not enabled leaves
\* isActive unchanged, and an inline dropdown is never closed by an outside click.
C22_DismissalPerOption == [][DismissalPerOption]_vars

\* C22 witness: an open dropdown with canClose = ['outside'] after an Escape keyup
C22_Witness ==
    /\ ddMounted
    /\ ddProps.canClose = ArrayProp(<<"outside">>)
    /\ ev.type = "keyup"
    /\ ev.target = "Escape"
    /\ ddIsActive

(***************************************************************************)
(* Cells: selection flags                                                  *)
(***************************************************************************)
\* selectedDate is an array
HasSelectionList == IF IsSet(props.selectedDate) THEN Val(props.selectedDate).isArray ELSE FALSE

SelectionList == Val(props.selectedDate).list

\* C24: with selectedDate = [start, end] and multiple off, firstSelected is set
\* exactly on the day calendar-equal to start, lastSelected exactly on the day
\* calendar-equal to end and withinSelected exactly when start < day < end, never
\* on an endpoint; with multiple on the three flags are unset for every day.
C24_RangeFlags ==
    \A i \in CallsOf("cellClasses") :
        (HasSelectionList /\ Len(SelectionList) = 2) =>
            LET flags == ret[i].value
                cell == ret[i].mom
                start == SelectionList[1]
                end == SelectionList[2]
            IN IF props.multiple
               THEN ~flags.firstSelected /\ ~flags.withinSelected /\ ~flags.lastSelected
               ELSE /\ flags.firstSelected <=> CalendarEqual(cell, start)
                    /\ flags.lastSelected <=> CalendarEqual(cell, end)
                    /\ flags.withinSelected <=> (start < cell /\ cell < end)
                    /\ flags.withinSelected => (~flags.firstSelected /\ ~flags.lastSelected)

\* C24 witness: the day between the ends of the range is within and no endpoint
C24_Witness ==
    /\ Len(ret) = 1
    /\ ret[1].fn = "cellClasses"
    /\ HasSelectionList
    /\ ~props.multiple
    /\ ret[1].mom = NewDate(2020, 0, 29)
    /\ ret[1].value.withinSelected
    /\ ~ret[1].value.firstSelected
    /\ ~ret[1].value.lastSelected

\* C25: the selected flag is set, for a single selectedDate, exactly on the day
\* calendar-equal to it; for a range with multiple off, exactly on the endpoints
\* and the days strictly between them; with multiple on, exactly on the days
\* calendar-equal to an element, never on a day that only lies between two.
C25_SelectedFlag ==
    \A i \in CallsOf("cellClasses") :
        LET flags == ret[i].value
            cell == ret[i].mom
        IN IF ~IsSet(props.selectedDate)
           THEN ~flags.selected
           ELSE IF ~HasSelectionList
                THEN flags.selected <=> CalendarEqual(cell, Val(props.selectedDate).date)
                ELSE IF props.multiple
                     THEN flags.selected <=>
                              \E k \in 1..Len(SelectionList) :
                                  CalendarEqual(cell, SelectionList[k])
                     ELSE flags.selected <=>
                              \/ CalendarEqual(cell, SelectionList[1])
                              \/ CalendarEqual(cell, SelectionList[2])
                              \/ (SelectionList[1] < cell /\ cell < SelectionList[2])

\* C25 witness: with multiple on, the day between two selected days is not selected
C25_Witness ==
    /\ Len(ret) = 1
    /\ ret[1].fn = "cellClasses"
    /\ HasSelectionList
    /\ props.multiple
    /\ ret[1].mom = NewDate(2020, 0, 29)
    /\ ~ret[1].value.selected

KeyTableStep ==
    \A key \in Keys : \A weekDay \in WeekFrom..(WeekFrom + 6) :
        manageKeydown(key, weekDay) =>
            /\ (key = "Tab") => (~defaultPrevented' /\ emitted' = <<>>)
            /\ (key # "Tab" /\ ~IsArrow(key)) => defaultPrevented'
            /\ (key \notin {"Tab", " ", "Space", "Spacebar", "Enter"} /\ ~IsArrow(key))
                   => emitted' = <<>>

\* the part of the key table that needs no arrow key
KeyTableWithoutArrows == [][KeyTableStep]_vars

\* the handler of an arrow key returns with preventDefault called
ArrowPrevented == (pc = "loop") ~> (pc = "done" /\ defaultPrevented)

\* C27: Tab is not intercepted (preventDefault is not called, nothing is
\* emitted); for every other key, handled or not, preventDefault is called; a
\* key that is not Enter, Space, an arrow or Tab emits no event.
C27_KeyTable ==
    /\ [][KeyTableStep]_vars
    /\ ArrowPrevented

(***************************************************************************)
(* No stale reopen of the dropdown                                         *)
(***************************************************************************)
\* the zero-delay timer of an earlier toggle() finds the dropdown closed and
\* leaves it closed
TimerKeepsClosed == (ddTimerFire /\ ~ddIsActive) => ~ddIsActive'

\* C28: once an open dropdown has been closed by an outside click, an Escape
\* keyup, a second toggle() or selectItem, isActive stays false until a new
\* trigger event: a close between the next-tick open and the zero-delay timer
\* of an earlier toggle() is not undone when that timer fires.
C28_NoStaleReopen == [][TimerKeepsClosed]_vars

(***************************************************************************)
(* The tooltip opens only through a configured trigger                     *)
(***************************************************************************)
\* a mouseleave, a blur, a document click or a keyup
ttClosingEvent ==
    \/ \E type \in {"blur", "mouseleave"} : close(type)
    \/ DocumentClick
    \/ \E key \in UpKeys : DocumentKeyUp(key)

\* such an event leaves a closed tooltip closed
ClosedStaysClosed == (~ttIsActive /\ ttClosingEvent) => ~ttIsActive'

\* C29: from isActive = false, for every autoClose value and every sequence of
\* mouseleave, blur, document click and keyup events that contains no trigger
\* event, isActive stays false.
C29_OpensOnlyThroughTrigger == [][ClosedStaysClosed]_vars

(***************************************************************************)
(* Invisible cells                                                         *)
(***************************************************************************)
\* C30: an invisible cell is never choosable: when cellClasses sets the
\* invisible flag of a day (its month differs from the displayed month and
\* nearbyMonthDays is off), the selectable flag of that day is not set and a
\* click or Enter on it emits no 'select'.
C30_InvisibleNeverChoosable ==
    \A i \in CallsOf("cellClasses") :
        ret[i].value.invisible =>
            /\ ~ret[i].value.selectable
            /\ ~(CellIsButton(ret[i].mom) /\ emitChosenDate(ret[i].mom) # <<>>)

(***************************************************************************)
(* selectItem and the state of the menu                                    *)
(***************************************************************************)
\* a click on an item of a closed dropdown leaves it closed
SelectKeepsClosed ==
    \A value \in Items : (ClickDdItem(value) /\ ~ddIsActive) => ~ddIsActive'

\* C31: selectItem never opens a closed dropdown: for every value of
\* closeOnClick and multiple, if isActive is false before selectItem(value)
\* (inline dropdown, or menu shown through hover only), it is false after it.
C31_SelectItemNeverOpens == [][SelectKeepsClosed]_vars

(***************************************************************************)
(* Week numbers along the calendar                                         *)
(***************************************************************************)
\* the number of the day after d continues that of d: the same inside a week,
\* the next one or 1 on the first day of a week
NextDayContinues(d, number) ==
    (d + 1 \in DOMAIN Calendar) =>
        IF GetDay(d + 1) # props.firstDayOfWeek
        THEN getWeekNumber(d + 1) = number
        ELSE /\ getWeekNumber(d + 1).rem = 0
             /\ getWeekNumber(d + 1).int \in {number.int + 1, 1}

\* the days of the grid row that ends with d have the number of d
RowSharesNumber(d, number) ==
    (GetDay(d + 1) = props.firstDayOfWeek /\ d - 6 \in DOMAIN Calendar) =>
        \A k \in 1..6 : getWeekNumber(d - k) = number

\* C32: for every firstDayOfWeek in 0..6, rulesForFirstWeek in {1, 4} and
\* consecutive dates d, d+1, getWeekNumber(d+1) = getWeekNumber(d) when the
\* weekday of d+1 is not firstDayOfWeek, and getWeekNumber(d) + 1 or 1 when it
\* is; the seven days of a grid row share the number shown for week[6].
C32_WeekNumbersConsistent ==
    \A i \in CallsOf("getWeekNumber") :
        /\ NextDayContinues(ret[i].mom, ret[i].value)
        /\ RowSharesNumber(ret[i].mom, ret[i].value)

\* C32 witness: Sunday 2020-12-27 ends a Monday-start row of week 52 and the
\* next day starts week 53; the call was made for the last day of the row
C32_Witness ==
    /\ props.firstDayOfWeek = 1
    /\ props.rulesForFirstWeek = 4
    /\ Len(ret) = 1
    /\ ret[1].fn = "getWeekNumber"
    /\ ret[1].mom = NewDate(2020, 11, 27)
    /\ ret[1].value.int = 52
    /\ getWeekNumber(NewDate(2020, 11, 28)).int = 53

(***************************************************************************)
(* Dropdown: the calls of selectItem and the events they emit              *)
(***************************************************************************)
MaxCalls == 3

\* selectItem that emits 'change' on every call
ddSelectItemEmits_ChangeAlways(value) ==
    <<Event("change", ddSelectedAfter(value)), Event("update:modelValue", ddSelectedAfter(value))>>

\* the events selectItem(value) emits, in order
ddSelectItemEmits(value) ==
    (IF ddProps.multiple
     THEN <<Event("change", ddSelectedAfter(value))>>
     ELSE IF ddSelected # Some(value)
          THEN <<Event("change", ddSelectedAfter(value))>>
          ELSE <<>>)
    \o <<Event("update:modelValue", ddSelectedAfter(value))>>

\* a click on an item of the menu, its call of selectItem recorded with its events
CallSelectItem(value) ==
    /\ TaskBoundary
    /\ ddMounted
    /\ ddMenuShown
    /\ Len(ret) < MaxCalls
    /\ selectItem(value)
    /\ ret' = Append(ret, Call("selectItem", value, ddSelectItemEmits(value)))
    /\ ev' = UserEvent("click", "ddItem", "bubbling", FALSE)
    /\ UNCHANGED <<arg, docListeners, ddProps, ddMounted, ddTicks, ddTimers>>
    /\ UNCHANGED <<rowVars, dtVars, ttVars>>

SpecSelect ==
    InitDropdown /\ [][\/ \E value \in Items : CallSelectItem(value)
                       \/ ClickToggler
                       \/ DocumentClick
                       \/ onHover
                       \/ ddTick
                       \/ ddTimerFire]_vars

\* selectItem(value) in single mode, by its effect on the state and its events
SingleSelect(value) ==
    LET emits == ret'[Len(ret')].value
    IN /\ ddSelected' = Some(value)
       /\ emits[Len(emits)] = Event("update:modelValue", Some(value))
       /\ IF ddSelected # Some(value)
          THEN emits = <<Event("change", Some(value)), Event("update:modelValue", Some(value))>>
          ELSE emits = <<Event("update:modelValue", Some(value))>>
       /\ ddProps.closeOnClick =>
              /\ ~ddIsActive'
              /\ hoverable => ~ddIsHoverable'

SingleSelectStep ==
    \A value \in Items : (CallSelectItem(value) /\ ~ddProps.multiple) => SingleSelect(value)

\* C33: selectItem(value) in single mode: selected becomes value;
\* 'update:modelValue' is emitted with it on every call; 'change' is emitted
\* if and only if value differs from the previous selection; with closeOnClick
\* true the dropdown is closed afterwards (isActive false, and isHoverable
\* false when 'hover' is a trigger).
C33_SingleSelect == [][SingleSelectStep]_vars

\* C33 witness: the item selected before is selected again in an open
\* dropdown shown through hover too: no 'change', and the dropdown is closed
C33_Witness ==
    /\ ~ddProps.multiple
    /\ ddProps.closeOnClick
    /\ hoverable
    /\ Len(ret) = 2
    /\ ret[1].mom = ret[2].mom
    /\ Len(ret[1].value) = 2
    /\ ret[2].value = <<Event("update:modelValue", Some(ret[2].mom))>>
    /\ ddSelected = Some(ret[2].mom)
    /\ ~ddIsActive
    /\ ~ddIsHoverable

(***************************************************************************)
(* selectItem in multiple mode                                             *)
(***************************************************************************)
\* the values of a selection; none when it is null or undefined
ValuesOf(selected) ==
    IF IsSet(selected) THEN {Val(selected)[i] : i \in 1..Len(Val(selected))} ELSE {}

NoDuplicates(selected) ==
    IsSet(selected) =>
        \A i \in 1..Len(Val(selected)) : \A j \in 1..Len(Val(selected)) :
            Val(selected)[i] = Val(selected)[j] => i = j

\* the selection after the i-th call, carried by its 'update:modelValue'
SelectedAfterCall(i) ==
    IF i = 0 THEN Undefined ELSE ret[i].value[Len(ret[i].value)].payload

\* selectItem(value) in multiple mode adds an absent value at the end, removes
\* a present one and leaves isActive alone
MultipleSelectStep ==
    \A value \in Items : (CallSelectItem(value) /\ ddProps.multiple) =>
        /\ IsSet(ddSelected')
        /\ IF value \in ValuesOf(ddSelected)
           THEN /\ ValuesOf(ddSelected') = ValuesOf(ddSelected) \ {value}
                /\ Len(Val(ddSelected')) = Len(Val(ddSelected)) - 1
           ELSE Val(ddSelected') =
                    (IF IsSet(ddSelected) THEN Val(ddSelected) ELSE <<>>) \o <<value>>
        /\ ddIsActive' = ddIsActive

\* C34: selectItem(value) in multiple mode appends value when it is absent from
\* selected (or selected is empty/null) and removes it when present; selected
\* never contains duplicates; calling it twice with the same value restores
\* the same set of values; isActive is left unchanged.
C34_MultipleSelectToggles ==
    /\ [][MultipleSelectStep]_vars
    /\ [](ddProps.multiple => NoDuplicates(ddSelected))
    /\ [](ddProps.multiple =>
             \A i \in 2..Len(ret) :
                 ret[i].mom = ret[i - 1].mom =>
                     ValuesOf(SelectedAfterCall(i)) = ValuesOf(SelectedAfterCall(i - 2)))

\* C34 witness: a value is added to a selection of one, then toggled twice
\* in an open dropdown: the two values are selected and the dropdown is open
C34_Witness ==
    /\ ddProps.multiple
    /\ Len(ret) = 3
    /\ ret[2].mom = ret[3].mom
    /\ ret[1].mom # ret[2].mom
    /\ ValuesOf(ddSelected) = {ret[1].mom}
    /\ ValuesOf(SelectedAfterCall(2)) = {ret[1].mom, ret[2].mom}
    /\ ddIsActive

(***************************************************************************)
(* The click trigger of the tooltip                                        *)
(***************************************************************************)
\* a tooltip opened by clicks, at once, that outside clicks close
TtClickScenario ==
    /\ ttProps.triggers = <<"click">>
    /\ ttProps.delay = 0
    /\ ~ttProps.autoClose.isBoolean
    /\ IndexOf(ttProps.autoClose.list, "outside") >= 0

\* the click on the trigger has reached the document and its deferred
\* callbacks have run
TtClickSettled ==
    /\ ev = UserEvent("click", "ttTrigger", "done", TRUE)
    /\ ttTicks = 0
    /\ ttClickTimers = 0

\* C35: with triggers ['click'], no delay and autoClose containing 'outside',
\* after a click on the trigger and the run of its deferred callbacks isActive
\* is true, whether the tooltip was open or closed before: the open is
\* performed after the document click listener of the same click has run.
C35_ClickOpenSurvivesOutsideClick ==
    (TtClickScenario /\ TtClickSettled) => ttIsActive

\* C35 witness: the click on the trigger has been handled and the tooltip is open
C35_Witness ==
    /\ TtClickScenario
    /\ TtClickSettled
    /\ ttProps.autoClose = ArrayProp(<<"inside", "outside", "escape">>)
    /\ ttIsActive

(***************************************************************************)
(* The auto-close options of the tooltip                                   *)
(***************************************************************************)
TtListed(option) ==
    /\ ~ttProps.autoClose.isBoolean
    /\ IndexOf(ttProps.autoClose.list, option) >= 0

\* mouseleave and blur: close on autoClose = true, nothing on an array
TtLeaveStep ==
    \A type \in {"blur", "mouseleave"} :
        close(type) =>
            /\ (ttProps.autoClose = BoolProp(TRUE)) => ~ttIsActive'
            /\ (~ttProps.autoClose.isBoolean) => (ttIsActive' = ttIsActive)

\* document click and Escape keyup on an open tooltip with an array autoClose
TtDocumentStep ==
    (ttMounted /\ ttIsActive /\ ~ttProps.autoClose.isBoolean) =>
        /\ DocumentClick =>
               (~ttIsActive' <=> IF ttIsInWhiteList(ev.target)
                                 THEN TtListed("inside")
                                 ELSE TtListed("outside"))
        /\ DocumentKeyUp("Escape") => (~ttIsActive' <=> TtListed("escape"))

\* C36: with autoClose = true, mouseleave or blur sets isActive to false; with
\* autoClose an array and the tooltip open, a document click outside the
\* content closes it iff 'outside' is listed, a click inside the content
\* closes it iff 'inside' is listed, an Escape keyup closes it iff 'escape' is
\* listed, and mouseleave/blur leave isActive unchanged.
C36_AutoCloseOptions ==
    /\ [][TtLeaveStep]_vars
    /\ [][TtDocumentStep]_vars

\* C36 witness: the pointer is still over the trigger of a tooltip opened by
\* hover that only Escape closes, and an Escape keyup has closed it
C36_Witness ==
    /\ ttMounted
    /\ ttProps.triggers = <<"hover">>
    /\ ttProps.delay = 0
    /\ ttProps.autoClose = ArrayProp(<<"escape">>)
    /\ ttHover
    /\ ev = UserEvent("keyup", "Escape", "done", FALSE)
    /\ ~ttIsActive

(***************************************************************************)
(* The time part kept across a change of date                              *)
(***************************************************************************)
\* seconds since the epoch of a Date
TimeOf(v) == v.date * 86400 + v.hours * 3600 + v.minutes * 60 + v.seconds

\* v brought inside the bounds that are set
Clamped(v) ==
    IF IsSet(dtProps.minDatetime) /\ TimeOf(v) < TimeOf(Val(dtProps.minDatetime))
    THEN Val(dtProps.minDatetime)
    ELSE IF IsSet(dtProps.maxDatetime) /\ TimeOf(v) > TimeOf(Val(dtProps.maxDatetime))
         THEN Val(dtProps.maxDatetime)
         ELSE v

\* the setter receives a Date while a Date is stored
TimeRestoredStep ==
    \A value \in PickerValues :
        (SetComputedValue(value) /\ value.kind = "Date" /\ newValue.kind = "Date") =>
            newValue' =
                Clamped(IF /\ value.date # newValue.date
                           /\ value.hours = 0
                           /\ value.minutes = 0
                           /\ value.seconds = 0
                        THEN JsDate(value.date, newValue.hours, newValue.minutes,
                                    newValue.seconds)
                        ELSE value)

\* C37: when a value already exists and the computedValue setter receives a
\* value on a different calendar date whose time is 00:00:00, the stored value
\* has the new date and the hours, minutes and seconds of the previous value;
\* when the new value is on the same calendar date or its time is not
\* midnight, it is stored as given (before clamping).
C37_TimePartRestored == [][TimeRestoredStep]_vars

\* C37 witness: 2020-01-28 08:15:20 was stored and the datepicker handed over
\* 2020-02-01 at midnight: 2020-02-01 08:15:20 is stored
C37_Witness ==
    /\ dtProps.value = JsDate(NewDate(2020, 0, 28), 8, 15, 20)
    /\ ~IsSet(dtProps.maxDatetime)
    /\ dtInput = <<>>
    /\ newValue = JsDate(NewDate(2020, 1, 1), 8, 15, 20)
    /\ dtEmitted = <<Event("input", newValue)>>

(***************************************************************************)
(* What the native input stores                                            *)
(***************************************************************************)
\* the text has the form YYYY-MM-DDTHH:MM
WellFormed(text) ==
    /\ Len(text) = 16
    /\ \A i \in {1, 2, 3, 4, 6, 7, 9, 10, 12, 13, 15, 16} : text[i] \in DOMAIN DigitValue
    /\ text[5] = "-"
    /\ text[8] = "-"
    /\ text[11] = "T"
    /\ text[14] = ":"

TwoDigits(text, i) == DigitValue[text[i]] * 10 + DigitValue[text[i + 1]]

\* the date and time a well-formed text names, with seconds 0
Entered(text) ==
    JsDate(NewDate(TwoDigits(text, 1) * 100 + TwoDigits(text, 3),
                   TwoDigits(text, 6) - 1, TwoDigits(text, 9)),
           TwoDigits(text, 12), TwoDigits(text, 15), 0)

\* a well-formed text inside the bounds is stored as entered, whatever valid
\* value or null was stored before
EnteredStoredStep ==
    \A text \in NativeTexts :
        (/\ onChangeNativePicker(text)
         /\ WellFormed(text)
         /\ Clamped(Entered(text)) = Entered(text)
         /\ newValue.kind # "Invalid Date") =>
            newValue' = Entered(text)

\* C38: for every well-formed native value 'YYYY-MM-DDTHH:MM' within the
\* min/max bounds and every previous value (null or any date-time), after
\* onChangeNativePicker the stored value has exactly the entered year, month,
\* day, hour and minute, with seconds 0.
C38_NativeInputStoresEntered == [][EnteredStoredStep]_vars

(***************************************************************************)
(* Datetimepicker: the default parser of the typed text                    *)
(***************************************************************************)
\* defaultDatetimeParser once the text has matched the format: groups are the
\* named groups of the match, each a text of digits or undefined; parsed is
\* what new Date(Date.parse(date)) gives for the text. No datetimeParser is
\* configured and Intl formatToParts exists. A text of digits is truthy, and
\* compares as its number.
defaultDatetimeParser(groups, parsed) ==
    LET number(group) == Val(parseInt(Val(group)))
        valid == /\ IsSet(groups.year)
                 /\ Len(Val(groups.year)) = 4
                 /\ IsSet(groups.month)
                 /\ number(groups.month) <= 12
                 /\ IsSet(groups.day)
                 /\ number(groups.day) <= 31
                 /\ IsSet(groups.hour)
                 /\ number(groups.hour) >= 0
                 /\ number(groups.hour) < 24
                 /\ IsSet(groups.minute)
                 /\ number(groups.minute) >= 0
                 /\ number(groups.minute) < 59
        d == NewDateTime(Some(number(groups.year)), Some(number(groups.month) - 1),
                         Some(number(groups.day)), Some(number(groups.hour)),
                         Some(number(groups.minute)))
        second == IF IsSet(groups.second) THEN number(groups.second) ELSE 0
    IN IF valid
       THEN [from |-> "groups", date |-> [d EXCEPT !.seconds = second]]
       ELSE [from |-> "Date.parse", date |-> parsed]

\* the user has typed a text that matches the format of the locale
InitParser ==
    /\ arg \in [year : {Some(<<"2", "0", "2", "0">>), Some(<<"2", "0">>)},
                 month : {Some(<<"0", "1">>), Some(<<"1", "2">>), Some(<<"1", "3">>)},
                 day : {Some(<<"0", "1">>), Some(<<"3", "1">>), Some(<<"3", "2">>)},
                 hour : {Undefined, Some(<<"0", "0">>), Some(<<"2", "3">>), Some(<<"2", "4">>)},
                 minute : {Some(<<"0", "0">>), Some(<<"5", "8">>), Some(<<"5", "9">>),
                           Some(<<"6", "0">>)},
                 second : {Undefined, Some(<<"1", "5">>)}]
    /\ ret = <<>>
    /\ props = RowDefaultProps
    /\ InitRowIdle
    /\ InitDtIdle
    /\ InitOvIdle

\* :date-parser="defaultDatetimeParser": Date.parse of a text that is not in
\* the ISO format gives what the browser decides, a date or NaN
CallDefaultDatetimeParser ==
    /\ ret = <<>>
    /\ \E parsed \in {InvalidDate, JsDate(NewDate(2020, 0, 1), 0, 0, 0)} :
           ret' = <<Call("defaultDatetimeParser", arg, defaultDatetimeParser(arg, parsed))>>
    /\ UNCHANGED <<arg, rowVars, dtVars, ovVars>>

SpecParser == InitParser /\ [][CallDefaultDatetimeParser]_vars

\* the number a group of digits stands for
GroupNumber(group) == Val(parseInt(Val(group)))

\* the groups are a 4-digit year, a month 1..12, a day 1..31, an hour 0..23
\* and a minute 0..59
ValidGroups(groups) ==
    /\ Len(Val(groups.year)) = 4
    /\ GroupNumber(groups.month) \in 1..12
    /\ GroupNumber(groups.day) \in 1..31
    /\ IsSet(groups.hour)
    /\ GroupNumber(groups.hour) \in 0..23
    /\ GroupNumber(groups.minute) \in 0..59

\* C39: for every matched field combination with a 4-digit year, month 1..12,
\* day 1..31, hour 0..23 and minute 0..59 the validation passes and the date
\* is built from the matched groups, seconds defaulting to 0; only an invalid
\* combination falls back to Date.parse.
C39_GroupValidation ==
    \A i \in CallsOf("defaultDatetimeParser") :
        /\ ValidGroups(ret[i].mom) <=> (ret[i].value.from = "groups")
        /\ ValidGroups(ret[i].mom) =>
               /\ ret[i].value.date.kind = "Date"
               /\ ret[i].value.date.hours = GroupNumber(ret[i].mom.hour)
               /\ ret[i].value.date.minutes = GroupNumber(ret[i].mom.minute)
               /\ ret[i].value.date.seconds =
                      (IF IsSet(ret[i].mom.second) THEN GroupNumber(ret[i].mom.second) ELSE 0)

\* the validation accepts no combination outside the ranges, and every
\* combination inside them whose minute is not 59
GroupValidationBut59 ==
    \A i \in CallsOf("defaultDatetimeParser") :
        /\ (ret[i].value.from = "groups") => ValidGroups(ret[i].mom)
        /\ (ValidGroups(ret[i].mom) /\ GroupNumber(ret[i].mom.minute) # 59)
               => ret[i].value.from = "groups"

====
